---- MODULE Spec2Model ----
(***************************************************************************)
(* Workout compliance and eligibility of the weight_room API.              *)
(*                                                                         *)
(* The data store (teams, players, workout_assignments,                    *)
(* workout_assignment_players, workout_exercise_logs, vbt_set_summaries)   *)
(* is the state; the HTTP handlers of routers/workouts.py, routers/        *)
(* players.py, routers/device.py and routers/dashboard.py are the actions. *)
(* Timestamps are ISO-8601 strings in the source, compared as strings; the *)
(* model uses integers in one time unit (a week), which keeps the order.   *)
(***************************************************************************)
EXTENDS Integers, FiniteSets, Sequences, TLC

VARIABLES
    players,      \* table players: rows [id, team_id, position_group]
    assignments,  \* table workout_assignments
    junction,     \* table workout_assignment_players: rows <<assignment_id, player_id>>
    logs,         \* table workout_exercise_logs
    vbt,          \* table vbt_set_summaries
    now,          \* the clock (datetime.now / the store's now())
    resp,         \* the response of the read handler that ran last, with the
                  \* locals of the call; NoResp once another request is served
    assignment_seq,   \* the last id the store gave to a workout_assignments row
    deleting,         \* the assignment ids of the delete_assignment requests
                      \* between their two delete statements
    supabase_client,  \* db.py _supabase_client
    init_done,        \* db.py _init_done
    init_lock,        \* db.py _init_lock: the set of its holders
    pc,               \* the line of get_supabase each request thread is at
    returned,         \* the values get_supabase has returned so far
    created,          \* the number of invocations of create_client
    settings,         \* config.py settings: which of supabase_url and
                      \* supabase_jwt_secret are set
    jwks_client,      \* auth.py _jwks_client
    current,          \* tables player_maxes and player_testing
    history,          \* tables player_max_history, player_testing_history
    upserts,          \* the upsert requests under way, with what each read
    upsert_seq,       \* the number of upsert requests that have arrived
    rfid_tags,        \* table rfid_tags
    rfid_tag_id,      \* column players.rfid_tag_id, by player id
    raw_sets,         \* table vbt_raw_sets
    creating          \* the create_assignment requests between their inserts

\* the state of db.py
conn == <<supabase_client, init_done, init_lock, pc, returned, created>>

\* the state the handlers of workouts.py, dashboard.py and db.py leave alone
other == <<settings, jwks_client, current, history, upserts, upsert_seq,
           rfid_tags, rfid_tag_id, raw_sets, creating>>

vars == <<players, assignments, junction, logs, vbt, now, resp,
          assignment_seq, deleting, conn, other>>

(***************************************************************************)
(* Bounds of the model.                                                    *)
(***************************************************************************)
MaxTime == 3
MaxAssignments == 2
MaxSummaries == 1
MaxLogs == 2
MaxThreads == 2
MaxExercises == 2
MaxUpserts == 3
MaxTags == 2
MaxRawSets == 2

(***************************************************************************)
(* Values of the source.                                                   *)
(***************************************************************************)
\* Python's None for an Optional timestamp (start_at, due_at)
None == -1
\* timedelta(days=14) and timedelta(days=7), in weeks
TwoWeeks == 2
OneWeek == 1

PositionGroup == {"skill", "combo", "power"}
TargetType == {"team", "position_group", "players"}
\* target_type values a stored row can carry besides TargetType: the column is
\* a plain string; "" stands for a row without the field
LegacyTargets == {"", "squad"}

Coaches == {"c1", "c2"}
\* table teams: both teams belong to coach c1, coach c2 has none
teams == {[id |-> "t1", coach_id |-> "c1"], [id |-> "t2", coach_id |-> "c1"]}
TeamIds == {t.id : t \in teams}

\* the roster the store starts with
InitialPlayers ==
    {[id |-> "p1", team_id |-> "t1", position_group |-> "power"],
     [id |-> "p2", team_id |-> "t1", position_group |-> "skill"],
     [id |-> "p3", team_id |-> "t2", position_group |-> "power"]}
PlayerIds == {p.id : p \in InitialPlayers}

NoResp == [op |-> "none"]


\* the tables a handler reaches through its store handle `sb`
Store ==
    [players |-> players, assignments |-> assignments, junction |-> junction,
     logs |-> logs, vbt |-> vbt]

\* Python's `x or fallback` on an Optional timestamp
OrElse(x, fallback) == IF x = None THEN fallback ELSE x

(***************************************************************************)
(* dashboard.py: shared helpers                                            *)
(***************************************************************************)
\* _get_coach_context: (team_ids, players) of a coach
CoachTeamIds(user_id) == {t.id : t \in {x \in teams : x.coach_id = user_id}}
CoachPlayers(user_id) == {p \in players : p.team_id \in CoachTeamIds(user_id)}

\* _players_by_team(players)[team_id], [] when the team has no players
PlayersByTeam(ps, team_id) == {p \in ps : p.team_id = team_id}

\* assignment.get("target_type", "team")
TargetOf(a) == IF a.target_type = "" THEN "team" ELSE a.target_type

\* _fetch_junction_map: {assignment_id: {player_id}} of the players-targeted
\* assignments that have junction rows
FetchJunctionMap(sb, as) ==
    LET ids == {a.id : a \in {x \in as : x.target_type = "players"}}
        rows == {r \in sb.junction : r[1] \in ids}
    IN  [aid \in {r[1] : r \in rows} |-> {r[2] : r \in {x \in rows : x[1] = aid}}]

\* junction_map.get(assignment_id, set())
JunctionGet(jm, aid) == IF aid \in DOMAIN jm THEN jm[aid] ELSE {}

\* _eligible_player_ids with the position_group filter dropped
EligibleNoGroupFilter(a, ps, jm) ==
    LET team_players == PlayersByTeam(ps, a.team_id)
        target == TargetOf(a)
    IN  IF target = "players"
        THEN JunctionGet(jm, a.id)
        ELSE {p.id : p \in team_players}

\* _eligible_player_ids with an unrecognized target_type resolved like "players"
EligibleUnknownAsPlayers(a, ps, jm) ==
    LET team_players == PlayersByTeam(ps, a.team_id)
        target == TargetOf(a)
    IN  IF target = "position_group"
        THEN {p.id : p \in {x \in team_players :
                               x.position_group = a.target_position_group}}
        ELSE IF target = "team"
        THEN {p.id : p \in team_players}
        ELSE JunctionGet(jm, a.id)

\* _eligible_player_ids with the players of every team taken as the roster
EligibleAnyTeam(a, ps, jm) ==
    LET target == TargetOf(a)
    IN  IF target = "position_group"
        THEN {p.id : p \in {x \in ps :
                               x.position_group = a.target_position_group}}
        ELSE IF target = "players"
        THEN JunctionGet(jm, a.id)
        ELSE {p.id : p \in ps}

\* _eligible_player_ids(assignment, pbt, junction_map), pbt = _players_by_team(ps)
EligiblePlayerIds(a, ps, jm) ==
    LET team_players == PlayersByTeam(ps, a.team_id)
        target == TargetOf(a)
    IN  IF target = "position_group"
        THEN {p.id : p \in {x \in team_players :
                               x.position_group = a.target_position_group}}
        ELSE IF target = "players"
        THEN JunctionGet(jm, a.id)
        ELSE {p.id : p \in team_players}

(***************************************************************************)
(* dashboard.py: _compute_compliance                                       *)
(***************************************************************************)
\* Python 3 round() of the float num / den * 100: to the nearest integer, a
\* tie to the even one (the float is exact for the counts the model reaches)
RoundPct(num, den) ==
    LET n == 100 * num
        q == n \div den
        r == n % den
    IN  IF 2 * r < den THEN q
        ELSE IF 2 * r > den THEN q + 1
        ELSE IF q % 2 = 0 THEN q ELSE q + 1

\* the window test with exclusive endpoints
MatchWindowExclusive(t, a_start, a_due) == a_start < t /\ t < a_due

\* a_start <= v["created_at"] <= a_due
MatchWindow(t, a_start, a_due) == a_start <= t /\ t <= a_due

\* .in_("team_id", team_ids).gte("due_at", since).lte("due_at", until): a row
\* whose due_at is NULL satisfies neither comparison
FetchAssignmentsDue(sb, team_ids, since, until) ==
    {a \in sb.assignments : /\ a.team_id \in team_ids
                         /\ a.due_at # None
                         /\ since <= a.due_at
                         /\ a.due_at <= until}

\* the log pairs with the rows filtered by logged_at like the sensor rows
LogPairsTimed(sb, assignment_ids, since, until) ==
    {<<l.assignment_id, l.player_id>> :
        l \in {x \in sb.logs : /\ x.assignment_id \in assignment_ids
                            /\ since <= x.logged_at
                            /\ x.logged_at <= until}}

\* log_pairs: the (assignment_id, player_id) pairs of the rows of
\* workout_exercise_logs with assignment_id in assignment_ids
LogPairs(sb, assignment_ids, since, until) ==
    {<<l.assignment_id, l.player_id>> :
        l \in {x \in sb.logs : x.assignment_id \in assignment_ids}}

\* vbt_set_summaries .in_("player_id", player_ids).gte("created_at", since)
\* .lte("created_at", until); no query when player_ids is empty
FetchVbtRows(sb, player_ids, since, until) ==
    IF player_ids = {} THEN {}
    ELSE {v \in sb.vbt : /\ v.player_id \in player_ids
                      /\ since <= v.created_at
                      /\ v.created_at <= until}

\* the set `started` with the two sources combined by ^ instead of added
StartedOfSymDiff(a, eligible, log_pairs, vbt_rows, fb_start, fb_end) ==
    LET a_start == OrElse(a.start_at, fb_start)
        a_due == OrElse(a.due_at, fb_end)
        by_log == {lp[2] : lp \in {x \in log_pairs : x[1] = a.id /\ x[2] \in eligible}}
        by_vbt == {v.player_id : v \in {x \in vbt_rows :
                      /\ x.player_id \in eligible
                      /\ MatchWindow(x.created_at, a_start, a_due)}}
    IN  (by_log \ by_vbt) \cup (by_vbt \ by_log)

\* the set `started` without the tests for membership in `eligible`
StartedOfAnyPlayer(a, eligible, log_pairs, vbt_rows, fb_start, fb_end) ==
    LET a_start == OrElse(a.start_at, fb_start)
        a_due == OrElse(a.due_at, fb_end)
    IN  {lp[2] : lp \in {x \in log_pairs : x[1] = a.id}}
        \cup {v.player_id : v \in {x \in vbt_rows :
                 MatchWindow(x.created_at, a_start, a_due)}}

\* the set `started` of one pass of the loop over the assignments
StartedOf(a, eligible, log_pairs, vbt_rows, fb_start, fb_end) ==
    LET a_start == OrElse(a.start_at, fb_start)
        a_due == OrElse(a.due_at, fb_end)
    IN  {lp[2] : lp \in {x \in log_pairs : x[1] = a.id /\ x[2] \in eligible}}
        \cup {v.player_id : v \in {x \in vbt_rows :
                 /\ x.player_id \in eligible
                 /\ MatchWindow(x.created_at, a_start, a_due)}}

\* the loop `for a in assignments`: team_eligible[tid] += len(eligible),
\* team_started[tid] += len(started); the rows are taken in id order
RECURSIVE Accumulate(_, _, _, _)
Accumulate(todo, elig, strt, acc) ==
    IF todo = {} THEN acc
    ELSE LET a == CHOOSE x \in todo : \A y \in todo : x.id <= y.id
             tid == a.team_id
         IN  Accumulate(todo \ {a}, elig, strt,
                 [team_eligible |->
                     [acc.team_eligible EXCEPT ![tid] = @ + Cardinality(elig[a.id])],
                  team_started |->
                     [acc.team_started EXCEPT ![tid] = @ + Cardinality(strt[a.id])]])

\* per_team computed as the mean of the rounded percentages of the assignments
PerTeamOfRoundedParts(team_ids, as, elig, strt, acc) ==
    [tid \in team_ids |->
        LET mine == {a \in as : a.team_id = tid /\ elig[a.id] # {}}
            RECURSIVE Sum(_)
            Sum(S) == IF S = {} THEN 0
                      ELSE LET a == CHOOSE x \in S : TRUE
                           IN  RoundPct(Cardinality(strt[a.id]), Cardinality(elig[a.id]))
                               + Sum(S \ {a})
        IN  IF mine = {} THEN 0 ELSE Sum(mine) \div Cardinality(mine)]

\* per_team = {tid: round(started / eligible * 100) if eligible else 0}
PerTeamOf(team_ids, as, elig, strt, acc) ==
    [tid \in team_ids |->
        IF acc.team_eligible[tid] # 0
        THEN RoundPct(acc.team_started[tid], acc.team_eligible[tid])
        ELSE 0]

RECURSIVE SumOver(_, _)
SumOver(f, S) ==
    IF S = {} THEN 0
    ELSE LET k == CHOOSE x \in S : TRUE IN f[k] + SumOver(f, S \ {k})

\* overall computed as the mean of the per-team percentages
OverallOfTeamMean(team_ids, acc) ==
    LET per == PerTeamOf(team_ids, {}, <<>>, <<>>, acc)
    IN  IF team_ids = {} THEN 0
        ELSE SumOver(per, team_ids) \div Cardinality(team_ids)

\* overall = round(total_s / total_e * 100) if total_e else 0
OverallOf(team_ids, acc) ==
    LET total_e == SumOver(acc.team_eligible, team_ids)
        total_s == SumOver(acc.team_started, team_ids)
    IN  IF total_e # 0 THEN RoundPct(total_s, total_e) ELSE 0

\* _compute_compliance(sb, team_ids, players, since_iso, until_iso): the
\* returned (per_team, overall) with the locals of the call
ComputeCompliance(sb, team_ids, ps, since, until) ==
    LET as == FetchAssignmentsDue(sb, team_ids, since, until)
        zero == [tid \in team_ids |-> 0]
    IN  IF team_ids = {}
        THEN [per_team |-> <<>>, overall |-> 0, fetched |-> {},
              eligible |-> <<>>, started |-> <<>>,
              team_eligible |-> <<>>, team_started |-> <<>>]
        ELSE IF as = {}
        THEN [per_team |-> zero, overall |-> 0, fetched |-> {},
              eligible |-> <<>>, started |-> <<>>,
              team_eligible |-> zero, team_started |-> zero]
        ELSE
        LET assignment_ids == {a.id : a \in as}
            jm == FetchJunctionMap(sb, as)
            log_pairs == LogPairs(sb, assignment_ids, since, until)
            vbt_rows == FetchVbtRows(sb, {p.id : p \in ps}, since, until)
            byId == [aid \in assignment_ids |-> CHOOSE a \in as : a.id = aid]
            elig == [aid \in assignment_ids |-> EligiblePlayerIds(byId[aid], ps, jm)]
            strt == [aid \in assignment_ids |->
                        StartedOf(byId[aid], elig[aid], log_pairs, vbt_rows,
                                  since, until)]
            acc == Accumulate(as, elig, strt,
                              [team_eligible |-> zero, team_started |-> zero])
        IN  [per_team |-> PerTeamOf(team_ids, as, elig, strt, acc),
             overall |-> OverallOf(team_ids, acc),
             fetched |-> assignment_ids,
             eligible |-> elig, started |-> strt,
             team_eligible |-> acc.team_eligible,
             team_started |-> acc.team_started]


(***************************************************************************)
(* workouts.py: templates and per-exercise progress                        *)
(***************************************************************************)
\* table workout_templates: a versioned template and a legacy one that
\* repeats an exercise
templates ==
    {[id |-> "w1",
      name |-> "Squat Day",
      content |->
        [version |-> 2,
         exercises |->
            <<[exerciseName |-> "Back Squat",
               setGroups |-> <<[sets |-> 3], [sets |-> 2]>>],
              [exerciseName |-> "Lunge",
               setGroups |-> <<[sets |-> 4]>>]>>]],
     [id |-> "w2",
      name |-> "Press Day",
      content |->
        [exercises |->
            <<[name |-> "Lunge", sets |-> 3],
              [name |-> "Bench Press", sets |-> 5],
              [name |-> "Lunge", sets |-> 3]>>]]}

\* _VBT_EXERCISES
VbtExercises ==
    {"Back Squat", "Front Squat", "Bench Press", "Overhead Press",
     "Deadlift", "Trap Bar Deadlift", "Romanian Deadlift",
     "Power Clean", "Hang Clean", "Push Press"}

\* dict.get(key, default)
Get(d, key, default) == IF key \in DOMAIN d THEN d[key] ELSE default

\* total_sets taken from the first set-group only
SumSetsFirstGroup(set_groups) ==
    IF set_groups = <<>> THEN 0 ELSE Get(Head(set_groups), "sets", 0)

RECURSIVE SumSets(_)
SumSets(set_groups) ==
    IF set_groups = <<>> THEN 0
    ELSE Get(Head(set_groups), "sets", 0) + SumSets(Tail(set_groups))

\* _parse_exercises with a stored trackingMode honoured on legacy entries too
ParseExercisesLegacyMode(content) ==
    LET exercises == Get(content, "exercises", <<>>)
        is_v2 == Get(content, "version", None) = 2
        One(ex) ==
            LET name == Get(ex, IF is_v2 THEN "exerciseName" ELSE "name", "")
            IN  [exercise_name |-> name,
                 tracking_mode |->
                     IF "trackingMode" \in DOMAIN ex THEN ex.trackingMode
                     ELSE IF name \in VbtExercises THEN "vbt"
                     ELSE "self_report",
                 sets_required |->
                     IF is_v2 THEN SumSets(Get(ex, "setGroups", <<>>))
                     ELSE Get(ex, "sets", 0)]
    IN  [i \in 1..Len(exercises) |-> One(exercises[i])]

\* _parse_exercises with the entries collected by name: one entry per name,
\* at the place of its first occurrence
ParseExercisesByName(content) ==
    LET exercises == Get(content, "exercises", <<>>)
        is_v2 == Get(content, "version", None) = 2
        NameOf(ex) == Get(ex, IF is_v2 THEN "exerciseName" ELSE "name", "")
        One(ex) ==
            [exercise_name |-> NameOf(ex),
             tracking_mode |->
                 IF is_v2 /\ "trackingMode" \in DOMAIN ex THEN ex.trackingMode
                 ELSE IF NameOf(ex) \in VbtExercises THEN "vbt"
                 ELSE "self_report",
             sets_required |->
                 IF is_v2 THEN SumSets(Get(ex, "setGroups", <<>>))
                 ELSE Get(ex, "sets", 0)]
        first == {i \in 1..Len(exercises) :
                     \A j \in 1..(i - 1) : NameOf(exercises[j]) # NameOf(exercises[i])}
        Nth(n) == CHOOSE i \in first : Cardinality({j \in first : j <= i}) = n
    IN  [n \in 1..Cardinality(first) |-> One(exercises[Nth(n)])]

\* _parse_exercises(content)
ParseExercises(content) ==
    LET exercises == Get(content, "exercises", <<>>)
        is_v2 == Get(content, "version", None) = 2
        One(ex) ==
            IF is_v2
            THEN LET name == Get(ex, "exerciseName", "")
                 IN  [exercise_name |-> name,
                      tracking_mode |->
                          IF "trackingMode" \in DOMAIN ex THEN ex.trackingMode
                          ELSE IF name \in VbtExercises THEN "vbt"
                          ELSE "self_report",
                      sets_required |-> SumSets(Get(ex, "setGroups", <<>>))]
            ELSE LET name == Get(ex, "name", "")
                 IN  [exercise_name |-> name,
                      tracking_mode |->
                          IF name \in VbtExercises THEN "vbt" ELSE "self_report",
                      sets_required |-> Get(ex, "sets", 0)]
    IN  [i \in 1..Len(exercises) |-> One(exercises[i])]

\* the sensor count without the filter on the exercise name
VbtSetsDoneAnyExercise(player_id, name, start_at, due_at, created_at) ==
    LET window_start == OrElse(start_at, created_at)
    IN  Cardinality({v \in vbt :
            /\ v.player_id = player_id
            /\ v.created_at >= window_start
            /\ (due_at # None => v.created_at <= due_at)})

\* _compute_exercise_progress, mode == "vbt": the rows of the player and the
\* exercise with created_at >= (start_at or created_at) and, when due_at is
\* set, created_at <= due_at
VbtSetsDone(player_id, name, start_at, due_at, created_at) ==
    LET window_start == OrElse(start_at, created_at)
    IN  Cardinality({v \in vbt :
            /\ v.player_id = player_id
            /\ v.exercise = name
            /\ v.created_at >= window_start
            /\ (due_at # None => v.created_at <= due_at)})

\* the self-report query without the filter on the player
LogRowsAnyPlayer(assignment_id, player_id, name) ==
    {l \in logs : /\ l.assignment_id = assignment_id
                  /\ l.exercise_name = name}

\* _compute_exercise_progress, self-report: the rows of workout_exercise_logs
\* with the assignment_id, the player_id and the exercise_name
LogRows(assignment_id, player_id, name) ==
    {l \in logs : /\ l.assignment_id = assignment_id
                  /\ l.player_id = player_id
                  /\ l.exercise_name = name}

\* _compute_exercise_progress: one ExerciseProgress per parsed exercise
ComputeExerciseProgress(parsed, player_id, assignment_id, start_at, due_at, created_at) ==
    [i \in 1..Len(parsed) |->
        LET name == parsed[i].exercise_name
            mode == parsed[i].tracking_mode
            rows == LogRows(assignment_id, player_id, name)
            row == CHOOSE l \in rows : TRUE
        IN  [exercise_name |-> name,
             tracking_mode |-> mode,
             sets_required |-> parsed[i].sets_required,
             sets_completed |->
                 IF mode = "vbt"
                 THEN VbtSetsDone(player_id, name, start_at, due_at, created_at)
                 ELSE IF rows # {} THEN row.sets_completed ELSE 0,
             weight_lbs |->
                 IF mode # "vbt" /\ rows # {} THEN row.weight_lbs ELSE None,
             reps_per_set |->
                 IF mode # "vbt" /\ rows # {} THEN row.reps_per_set ELSE None]]


(***************************************************************************)
(* The handlers that write the store                                       *)
(***************************************************************************)
\* workouts.py create_assignment: body = [team_id, template_id, target_type,
\* target_position_group, player_ids, start_at, due_at]; the store assigns
\* the id and fills status and created_at with its defaults
create_assignment(body) ==
    /\ assignment_seq < MaxAssignments
    /\ LET id == assignment_seq + 1
           row == [id |-> id,
                   team_id |-> body.team_id,
                   template_id |-> body.template_id,
                   target_type |-> body.target_type,
                   target_position_group |->
                       IF body.target_type = "position_group"
                       THEN body.target_position_group ELSE "",
                   start_at |-> body.start_at,
                   due_at |-> body.due_at,
                   status |-> "active",
                   created_at |-> now]
       IN  /\ assignments' = assignments \cup {row}
           /\ junction' =
                  IF body.target_type = "players" /\ body.player_ids # {}
                  THEN junction \cup {<<id, pid>> : pid \in body.player_ids}
                  ELSE junction
           /\ assignment_seq' = id
    /\ resp' = NoResp
    /\ UNCHANGED <<players, logs, vbt, now, deleting, conn, other>>

\* players.py delete_player: deletes the players row, nothing else
delete_player(player_id) ==
    /\ players' = {p \in players : p.id # player_id}
    /\ resp' = NoResp
    /\ UNCHANGED <<assignments, junction, logs, vbt, now,
                   assignment_seq, deleting, conn, other>>

\* device.py create_set: the set summary row of a recorded set; the store
\* stamps created_at
create_set(player_id, exercise) ==
    /\ Cardinality(vbt) < MaxSummaries
    /\ vbt' = vbt \cup {[id |-> Cardinality(vbt) + 1,
                         player_id |-> player_id,
                         exercise |-> exercise,
                         created_at |-> now]}
    /\ resp' = NoResp
    /\ UNCHANGED <<players, assignments, junction, logs, now,
                   assignment_seq, deleting, conn, other>>

\* submit_workout_log with insert in place of upsert: no row is replaced
submit_workout_log_insert(player_id, assignment_id, body) ==
    LET rows == {[assignment_id |-> assignment_id,
                  player_id |-> player_id,
                  exercise_name |-> l.exercise_name,
                  weight_lbs |-> l.weight_lbs,
                  sets_completed |-> l.sets_completed,
                  reps_per_set |-> l.reps_per_set,
                  logged_at |-> now] : l \in body}
    IN  /\ Cardinality(logs \cup rows) <= MaxLogs + 1
        /\ logs' = logs \cup rows
        /\ resp' = NoResp
        /\ UNCHANGED <<players, assignments, junction, vbt, now,
                       assignment_seq, deleting, conn, other>>

\* workouts.py submit_workout_log: upsert on (assignment_id, player_id,
\* exercise_name), logged_at = now()
submit_workout_log(player_id, assignment_id, body) ==
    LET keys == {l.exercise_name : l \in body}
        kept == {x \in logs : ~ (/\ x.assignment_id = assignment_id
                                 /\ x.player_id = player_id
                                 /\ x.exercise_name \in keys)}
        rows == {[assignment_id |-> assignment_id,
                  player_id |-> player_id,
                  exercise_name |-> l.exercise_name,
                  weight_lbs |-> l.weight_lbs,
                  sets_completed |-> l.sets_completed,
                  reps_per_set |-> l.reps_per_set,
                  logged_at |-> now] : l \in body}
    IN  /\ Cardinality(kept \cup rows) <= MaxLogs
        /\ logs' = IF Cardinality(keys) < Cardinality(body)
                   THEN logs   \* two rows of one statement with one key: the
                               \* store rejects the upsert, execute() raises
                   ELSE kept \cup rows
        /\ resp' = NoResp
        /\ UNCHANGED <<players, assignments, junction, vbt, now,
                       assignment_seq, deleting, conn, other>>

\* the clock advances
Tick ==
    /\ now < MaxTime
    /\ now' = now + 1
    /\ resp' = NoResp
    /\ UNCHANGED <<players, assignments, junction, logs, vbt,
                   assignment_seq, deleting, conn, other>>

(***************************************************************************)
(* The handlers that read the store                                        *)
(***************************************************************************)
\* dashboard.py coach_stats / coach_team_overviews: the compliance of the
\* last 14 days, _compute_compliance(sb, team_ids, players, two_weeks_ago, now)
coach_compliance(user_id) ==
    LET team_ids == CoachTeamIds(user_id)
        ps == CoachPlayers(user_id)
        since == now - TwoWeeks
        r == ComputeCompliance(Store, team_ids, ps, since, now)
    IN  /\ resp' = [op |-> "compliance", user_id |-> user_id,
                    team_ids |-> team_ids, roster |-> ps,
                    since |-> since, until |-> now, out |-> r]
        /\ UNCHANGED <<players, assignments, junction, logs, vbt, now,
                       assignment_seq, deleting, conn, other>>

\* dashboard.py coach_due_workouts: per assignment due from a week ago to two
\* weeks ahead, completedCount = len(started), totalCount = len(eligible)
coach_due_workouts(user_id) ==
    LET team_ids == CoachTeamIds(user_id)
        ps == CoachPlayers(user_id)
        week_ago == now - OneWeek
        two_weeks_ahead == now + TwoWeeks
        as == IF team_ids = {} THEN {}
              ELSE FetchAssignmentsDue(Store, team_ids, week_ago, two_weeks_ahead)
        assignment_ids == {a.id : a \in as}
        jm == FetchJunctionMap(Store, as)
        log_pairs == LogPairs(Store, assignment_ids, week_ago, two_weeks_ahead)
        vbt_rows == FetchVbtRows(Store, {p.id : p \in ps}, week_ago, two_weeks_ahead)
        byId == [aid \in assignment_ids |-> CHOOSE a \in as : a.id = aid]
        elig == [aid \in assignment_ids |-> EligiblePlayerIds(byId[aid], ps, jm)]
        strt == [aid \in assignment_ids |->
                    StartedOf(byId[aid], elig[aid], log_pairs, vbt_rows,
                              week_ago, two_weeks_ahead)]
    IN  /\ resp' = [op |-> "due_workouts", user_id |-> user_id,
                    team_ids |-> team_ids, roster |-> ps,
                    since |-> week_ago, until |-> two_weeks_ahead,
                    out |-> [fetched |-> assignment_ids,
                             eligible |-> elig, started |-> strt],
                    items |-> [aid \in assignment_ids |->
                                [completedCount |-> Cardinality(strt[aid]),
                                 totalCount |-> Cardinality(elig[aid]),
                                 overdue |-> byId[aid].due_at < now]]]
        /\ UNCHANGED <<players, assignments, junction, logs, vbt, now,
                       assignment_seq, deleting, conn, other>>

\* workouts.py get_assignment_progress, "Get eligible players": the ids of
\* all_players
ProgressPlayers(assignment) ==
    LET target == TargetOf(assignment)
        team_rows == {p \in players : p.team_id = assignment.team_id}
        players_resp == IF target = "position_group"
                        THEN {x \in team_rows :
                                 x.position_group = assignment.target_position_group}
                        ELSE team_rows
        eligible_ids == {r[2] : r \in {x \in junction : x[1] = assignment.id}}
    IN  {p.id : p \in IF target = "players"
                      THEN {x \in players_resp : x.id \in eligible_ids}
                      ELSE players_resp}

\* workouts.py get_assignment_progress: 404 without the assignment or its
\* template, 403 when the team is not the caller's, else one PlayerProgress
\* per player of all_players
get_assignment_progress(assignment_id, user_id) ==
    LET found == {a \in assignments : a.id = assignment_id}
        assignment == CHOOSE a \in found : TRUE
        tmpl == {t \in templates : t.id = assignment.template_id}
        parsed == ParseExercises((CHOOSE t \in tmpl : TRUE).content)
        all_players == ProgressPlayers(assignment)
    IN  /\ resp' =
              IF found = {}
              THEN [op |-> "progress", status |-> 404]
              ELSE IF assignment.team_id \notin CoachTeamIds(user_id)
              THEN [op |-> "progress", status |-> 403]
              ELSE IF tmpl = {}
              THEN [op |-> "progress", status |-> 404]
              ELSE [op |-> "progress", status |-> 200,
                    assignment |-> assignment,
                    players |-> all_players,
                    exercises |->
                        [pid \in all_players |->
                            ComputeExerciseProgress(parsed, pid, assignment_id,
                                assignment.start_at, assignment.due_at,
                                assignment.created_at)]]
        /\ UNCHANGED <<players, assignments, junction, logs, vbt, now,
                       assignment_seq, deleting, conn, other>>

\* workouts.py get_active_workouts, "Filter by target": TRUE when the
\* assignment is kept for the player
ActiveFor(assignment, player) ==
    LET target == TargetOf(assignment)
    IN  IF target = "position_group"
        THEN assignment.target_position_group = player.position_group
        ELSE IF target = "players"
        THEN <<assignment.id, player.id>> \in junction
        ELSE TRUE

\* workouts.py get_active_workouts: 404 without the player row, else one
\* ActiveWorkout per active assignment of the player's team that passes the
\* target filter and has its template
get_active_workouts(player_id) ==
    LET found == {p \in players : p.id = player_id}
        player == CHOOSE p \in found : TRUE
        kept == {a \in assignments :
                    /\ a.team_id = player.team_id
                    /\ a.status = "active"
                    /\ ActiveFor(a, player)
                    /\ \E t \in templates : t.id = a.template_id}
        Row(aid) == CHOOSE a \in kept : a.id = aid
        Tmpl(aid) == CHOOSE t \in templates : t.id = Row(aid).template_id
    IN  /\ resp' =
              IF found = {}
              THEN [op |-> "active_workouts", status |-> 404]
              ELSE [op |-> "active_workouts", status |-> 200,
                    player |-> player,
                    assignment_ids |-> {a.id : a \in kept},
                    exercises |->
                        [aid \in {a.id : a \in kept} |->
                            ComputeExerciseProgress(
                                ParseExercises(Tmpl(aid).content), player_id, aid,
                                Row(aid).start_at, Row(aid).due_at,
                                Row(aid).created_at)]]
        /\ UNCHANGED <<players, assignments, junction, logs, vbt, now,
                       assignment_seq, deleting, conn, other>>

(***************************************************************************)
(* db.py: get_supabase, the lazy singleton behind every _require_db        *)
(***************************************************************************)
\* the request threads of the process
Threads == 1..MaxThreads

\* the tables, the clock and the last response
store == <<players, assignments, junction, logs, vbt, now, resp,
           assignment_seq, deleting>>

\* nothing configured for auth.py, the other tables empty, no request under
\* way
Quiet ==
    /\ settings = [supabase_url |-> TRUE, supabase_jwt_secret |-> TRUE]
    /\ jwks_client = None
    /\ current = {}
    /\ history = <<>>
    /\ upserts = {}
    /\ upsert_seq = 0
    /\ rfid_tags = {}
    /\ rfid_tag_id = [p \in PlayerIds |-> None]
    /\ raw_sets = {}
    /\ creating = {}

\* the module state at import: lines 14-16
Cold ==
    /\ supabase_client = None
    /\ init_done = FALSE
    /\ init_lock = {}
    /\ pc = [t \in Threads |-> "idle"]
    /\ returned = {}
    /\ created = 0

\* the module state once a cold start has connected: every later
\* get_supabase returns the client at line 23
Connected ==
    /\ supabase_client = 1
    /\ init_done = TRUE
    /\ init_lock = {}
    /\ pc = [t \in Threads |-> "idle"]
    /\ returned = {}
    /\ created = 1

Goto(t, line) == pc' = [pc EXCEPT ![t] = line]

\* a request thread calls get_supabase
call(t) ==
    /\ pc[t] = "idle"
    /\ Goto(t, "l22")
    /\ UNCHANGED <<supabase_client, init_done, init_lock, returned, created, store, other>>

\* line 22: if _init_done
check_done(t) ==
    /\ pc[t] = "l22"
    /\ Goto(t, IF init_done THEN "l23" ELSE "l24")
    /\ UNCHANGED <<supabase_client, init_done, init_lock, returned, created, store, other>>

\* lines 23 and 44: return _supabase_client
return_client(t) ==
    /\ pc[t] \in {"l23", "l44"}
    /\ returned' = returned \cup {supabase_client}
    /\ Goto(t, "idle")
    /\ UNCHANGED <<supabase_client, init_done, init_lock, created, store, other>>

\* line 24: with _init_lock, entered when no thread holds the lock
acquire(t) ==
    /\ pc[t] = "l24"
    /\ init_lock = {}
    /\ init_lock' = {t}
    /\ Goto(t, "l26")
    /\ UNCHANGED <<supabase_client, init_done, returned, created, store, other>>

\* line 26 without the second test of _init_done
recheck_skipped(t) ==
    /\ pc[t] = "l26"
    /\ Goto(t, "l29")
    /\ UNCHANGED <<supabase_client, init_done, init_lock, returned, created, store, other>>

\* line 26: if _init_done, inside the lock
recheck(t) ==
    /\ pc[t] = "l26"
    /\ Goto(t, IF init_done THEN "l27" ELSE "l29")
    /\ UNCHANGED <<supabase_client, init_done, init_lock, returned, created, store, other>>

\* line 27: return _supabase_client inside the with block, which releases
\* the lock
return_locked(t) ==
    /\ pc[t] = "l27"
    /\ returned' = returned \cup {supabase_client}
    /\ init_lock' = init_lock \ {t}
    /\ Goto(t, "idle")
    /\ UNCHANGED <<supabase_client, init_done, created, store, other>>

\* lines 29-34: the settings are imported and tested; the import raises, the
\* url or the key is missing, or both are set
read_settings(t) ==
    /\ pc[t] = "l29"
    /\ \E line \in {"l42", "l43", "l36"} : Goto(t, line)
    /\ UNCHANGED <<supabase_client, init_done, init_lock, returned, created, store, other>>

\* lines 36-38: _supabase_client = create_client(...); the call returns a new
\* handle or raises
create_client(t) ==
    /\ pc[t] = "l36"
    /\ created' = created + 1
    /\ \/ supabase_client' = created + 1 /\ Goto(t, "l43")
       \/ UNCHANGED supabase_client /\ Goto(t, "l42")
    /\ UNCHANGED <<init_done, init_lock, returned, store, other>>

\* lines 40-42: except Exception: _supabase_client = None
on_exception(t) ==
    /\ pc[t] = "l42"
    /\ supabase_client' = None
    /\ Goto(t, "l43")
    /\ UNCHANGED <<init_done, init_lock, returned, created, store, other>>

\* line 43: _init_done = True
set_done(t) ==
    /\ pc[t] = "l43"
    /\ init_done' = TRUE
    /\ Goto(t, "exit")
    /\ UNCHANGED <<supabase_client, init_lock, returned, created, store, other>>

\* the end of the with block: the lock is released
release(t) ==
    /\ pc[t] = "exit"
    /\ init_lock' = init_lock \ {t}
    /\ Goto(t, "l44")
    /\ UNCHANGED <<supabase_client, init_done, returned, created, store, other>>

(***************************************************************************)
(* Specifications                                                          *)
(***************************************************************************)
\* the request bodies of create_assignment the eligibility runs draw from:
\* every target type on both teams, due now
SelectionsElig == {{}, {"p1"}, {"p1", "p3"}}
BodiesElig ==
    {[team_id |-> t, template_id |-> "w1", target_type |-> "team",
      target_position_group |-> "",
      player_ids |-> {}, start_at |-> None, due_at |-> 0] : t \in TeamIds}
    \cup
    {[team_id |-> t, template_id |-> "w1", target_type |-> "position_group",
      target_position_group |-> g,
      player_ids |-> {}, start_at |-> None, due_at |-> 0] :
        t \in TeamIds, g \in {"power", "combo"}}
    \cup
    {[team_id |-> t, template_id |-> "w1", target_type |-> "players",
      target_position_group |-> "",
      player_ids |-> sel, start_at |-> None, due_at |-> 0] :
        t \in TeamIds, sel \in SelectionsElig}

\* a row of workout_assignments written before target_type was validated
LegacyRow(tt) ==
    [id |-> 1, team_id |-> "t1", template_id |-> "w1", target_type |-> tt,
     target_position_group |-> "", start_at |-> None, due_at |-> 0,
     status |-> "active", created_at |-> 0]

InitElig ==
    /\ players = InitialPlayers
    /\ assignments \in {{}} \cup {{LegacyRow(tt)} : tt \in LegacyTargets}
    /\ junction = {}
    /\ logs = {}
    /\ vbt = {}
    /\ now = 0
    /\ resp = NoResp
    /\ assignment_seq = Cardinality(assignments)
    /\ deleting = {}
    /\ Connected
    /\ Quiet

CreateAssignmentElig == \E body \in BodiesElig : create_assignment(body)
DeletePlayer == \E pid \in PlayerIds : delete_player(pid)
CoachCompliance == \E u \in Coaches : coach_compliance(u)
AssignmentProgress ==
    \E aid \in 1..MaxAssignments, u \in Coaches : get_assignment_progress(aid, u)
ActiveWorkouts == \E pid \in PlayerIds : get_active_workouts(pid)

NextElig ==
    \/ CreateAssignmentElig
    \/ DeletePlayer
    \/ CoachCompliance
    \/ AssignmentProgress
    \/ ActiveWorkouts

SpecElig == InitElig /\ [][NextElig]_vars

\* the request bodies the window runs draw from: the whole team t1, due at
\* time 2, with a start before the reporting window or none
BodiesCompl ==
    {[team_id |-> "t1", template_id |-> "w1", target_type |-> "team",
      target_position_group |-> "",
      player_ids |-> {}, start_at |-> s, due_at |-> 2] : s \in {0, None}}

LogBodies == {{[exercise_name |-> "Lunge", weight_lbs |-> 95,
                 sets_completed |-> 1, reps_per_set |-> 8]}}

Init ==
    /\ players = InitialPlayers
    /\ assignments = {}
    /\ junction = {}
    /\ logs = {}
    /\ vbt = {}
    /\ now = 0
    /\ resp = NoResp
    /\ assignment_seq = Cardinality(assignments)
    /\ deleting = {}
    /\ Connected
    /\ Quiet

\* work is assigned ahead of its due time
CreateAssignment ==
    \E body \in BodiesCompl : now < body.due_at /\ create_assignment(body)
\* the players of team t1 record sets
CreateSet == \E pid \in {"p1", "p2"} : create_set(pid, "Back Squat")
\* player p1 reports on the first assignment
SubmitWorkoutLog ==
    \E aid \in {a.id : a \in assignments} \cap {1}, body \in LogBodies :
        submit_workout_log("p1", aid, body)
CoachStats == coach_compliance("c1")
CoachDueWorkouts == coach_due_workouts("c1")
\* the coach opens the grid of the first assignment
CoachProgress == get_assignment_progress(1, "c1")

Next ==
    \/ CreateAssignment
    \/ CreateSet
    \/ SubmitWorkoutLog
    \/ Tick
    \/ CoachStats
    \/ CoachDueWorkouts
    \/ CoachProgress

Spec == Init /\ [][Next]_vars

\* the request bodies the ratio runs draw from, all at time 0: the whole team
\* t1, one position group of t1, the whole team t2, due now, and the whole
\* team t1 due after the reporting window
BodiesRatio ==
    {[team_id |-> "t1", template_id |-> "w1", target_type |-> "team",
      target_position_group |-> "",
      player_ids |-> {}, start_at |-> None, due_at |-> 0],
     [team_id |-> "t1", template_id |-> "w1", target_type |-> "position_group",
      target_position_group |-> "power",
      player_ids |-> {}, start_at |-> None, due_at |-> 0],
     [team_id |-> "t2", template_id |-> "w1", target_type |-> "team",
      target_position_group |-> "",
      player_ids |-> {}, start_at |-> None, due_at |-> 0],
     [team_id |-> "t1", template_id |-> "w1", target_type |-> "team",
      target_position_group |-> "",
      player_ids |-> {}, start_at |-> None, due_at |-> 1]}

CreateAssignmentRatio == \E body \in BodiesRatio : create_assignment(body)
\* a player of each team reports on any assignment
SubmitWorkoutLogRatio ==
    \E pid \in {"p1", "p3"}, aid \in {a.id : a \in assignments},
       body \in LogBodies : submit_workout_log(pid, aid, body)

NextRatio ==
    \/ CreateAssignmentRatio
    \/ CreateSet
    \/ SubmitWorkoutLogRatio
    \/ CoachCompliance

SpecRatio == Init /\ [][NextRatio]_vars


\* a cold process with an empty store
InitDb ==
    /\ players = InitialPlayers
    /\ assignments = {}
    /\ junction = {}
    /\ logs = {}
    /\ vbt = {}
    /\ now = 0
    /\ resp = NoResp
    /\ assignment_seq = 0
    /\ deleting = {}
    /\ Cold
    /\ Quiet

NextDb ==
    \E t \in Threads :
        \/ call(t)
        \/ check_done(t)
        \/ return_client(t)
        \/ acquire(t)
        \/ recheck(t)
        \/ return_locked(t)
        \/ read_settings(t)
        \/ create_client(t)
        \/ on_exception(t)
        \/ set_done(t)
        \/ release(t)

SpecDb == InitDb /\ [][NextDb]_vars


\* the call _parse_exercises(content) of a handler that has fetched a
\* template: the list returned; the function has no raise statement
parse_exercises(content) ==
    /\ resp' = [op |-> "parse", content |-> content, error |-> "none",
                out |-> ParseExercises(content)]
    /\ UNCHANGED <<players, assignments, junction, logs, vbt, now,
                   assignment_seq, deleting, conn, other>>

\* the stored template contents the parser runs draw from: a JSON object is
\* a function of its keys, a key that is not stored is not in its domain
Opt(key, values) == {<<>>} \cup {[k \in {key} |-> v] : v \in values}
Lists(S, max) == UNION {[1..n -> S] : n \in 0..max}
ExerciseNames == {"Back Squat", "Lunge"}
TrackingModes == {"vbt", "self_report"}
SetGroupLists == {<<[sets |-> 3], [sets |-> 2]>>, <<[sets |-> 4]>>, <<[reps |-> 5]>>}
V2Entries ==
    {n @@ g @@ m : n \in Opt("exerciseName", ExerciseNames),
                   g \in Opt("setGroups", SetGroupLists),
                   m \in Opt("trackingMode", TrackingModes)}
LegacyEntries ==
    {n @@ c @@ m : n \in Opt("name", ExerciseNames),
                   c \in Opt("sets", {4, 5}),
                   m \in Opt("trackingMode", TrackingModes)}
\* the contents with at most `max` exercises
Contents(max) ==
    {[version |-> 2, exercises |-> xs] : xs \in Lists(V2Entries, max)}
    \cup {[version |-> 1, exercises |-> xs] : xs \in Lists(LegacyEntries, max)}
    \cup {[exercises |-> xs] : xs \in Lists(LegacyEntries, max)}
    \cup {[version |-> 2], <<>>}

\* a handler holds the content of the template it has fetched
InitParse ==
    /\ players = InitialPlayers
    /\ assignments = {}
    /\ junction = {}
    /\ logs = {}
    /\ vbt = {}
    /\ now = 0
    /\ resp \in {[op |-> "fetched", content |-> content] : content \in Contents(MaxExercises)}
    /\ assignment_seq = 0
    /\ deleting = {}
    /\ Connected
    /\ Quiet

ParseTemplate == resp.op = "fetched" /\ parse_exercises(resp.content)

NextParse == ParseTemplate

SpecParse == InitParse /\ [][NextParse]_vars


\* the request bodies the progress runs draw from: the versioned template
\* for team t1 with no window, with a start only, with both ends
BodiesProgress ==
    {[team_id |-> "t1", template_id |-> "w1", target_type |-> "team",
      target_position_group |-> "",
      player_ids |-> {}, start_at |-> w[1], due_at |-> w[2]] :
        w \in {<<None, None>>, <<1, None>>, <<1, 2>>}}

\* the coach assigns one workout
CreateAssignmentProgress ==
    /\ assignments = {}
    /\ \E body \in BodiesProgress : create_assignment(body)
\* the players of team t1 record sets of two sensor-tracked exercises
CreateSetProgress ==
    \E pid \in {"p1", "p2"}, exercise \in {"Back Squat", "Bench Press"} :
        create_set(pid, exercise)
\* player p1 opens the app
ActiveWorkoutsProgress == get_active_workouts("p1")

NextProgress ==
    \/ CreateAssignmentProgress
    \/ CreateSetProgress
    \/ Tick
    \/ CoachProgress
    \/ ActiveWorkoutsProgress

SpecProgress == Init /\ [][NextProgress]_vars

\* the request bodies the report runs draw from: team t1 with the versioned
\* template, the legacy template and a template that is not stored
BodiesReport ==
    {[team_id |-> "t1", template_id |-> w, target_type |-> "team",
      target_position_group |-> "",
      player_ids |-> {}, start_at |-> None, due_at |-> None] :
        w \in {"w1", "w2", "w0"}}

\* the reports: a self-report exercise and a sensor-tracked one
LogBodiesReport ==
    {{[exercise_name |-> "Lunge", weight_lbs |-> 95,
       sets_completed |-> 1, reps_per_set |-> 8]},
     {[exercise_name |-> "Bench Press", weight_lbs |-> 135,
       sets_completed |-> 2, reps_per_set |-> 5]}}

CreateAssignmentReport == \E body \in BodiesReport : create_assignment(body)
SubmitWorkoutLogReport ==
    \E pid \in {"p1", "p2"}, aid \in {a.id : a \in assignments},
       body \in LogBodiesReport : submit_workout_log(pid, aid, body)

NextReport ==
    \/ CreateAssignmentReport
    \/ SubmitWorkoutLogReport
    \/ AssignmentProgress
    \/ ActiveWorkouts

SpecReport == Init /\ [][NextReport]_vars


\* the tables the dashboard queries; `down` names the table whose queries
\* raise during a request, "none" when every query succeeds
Tables ==
    {"teams", "players", "workout_assignments", "workout_assignment_players",
     "workout_exercise_logs", "vbt_set_summaries"}

\* db.py: the module state after an initialisation that failed; get_supabase
\* returns None from then on
Unavailable ==
    /\ supabase_client = None
    /\ init_done = TRUE
    /\ init_lock = {}
    /\ pc = [t \in Threads |-> "idle"]
    /\ returned = {}
    /\ created = 0

\* the store as a handler sees it when the query of workout_exercise_logs
\* raised inside `try: ... except Exception: pass`: log_pairs stays empty
Seen(failed) ==
    IF "workout_exercise_logs" \in failed
    THEN [Store EXCEPT !.logs = {}] ELSE Store

\* dashboard.py coach_stats with the queries of table `down` raising:
\* _require_db, _get_coach_context, the week's assignments, the flagged sets,
\* then _compute_compliance; `failed` holds the queries that were sent and
\* raised, and only the one of the log fetch is caught
coach_stats(user_id, down) ==
    LET team_ids == CoachTeamIds(user_id)
        ps == CoachPlayers(user_id)
        since == now - TwoWeeks
        as == FetchAssignmentsDue(Store, team_ids, since, now)
        issued ==
            {"teams"}
            \cup (IF team_ids # {} THEN {"players", "workout_assignments"} ELSE {})
            \cup (IF team_ids # {} /\ ps # {} THEN {"vbt_set_summaries"} ELSE {})
            \cup (IF team_ids # {} /\ as # {}
                  THEN {"workout_exercise_logs"}
                       \cup (IF \E a \in as : a.target_type = "players"
                             THEN {"workout_assignment_players"} ELSE {})
                  ELSE {})
        failed == issued \cap {down}
    IN  /\ resp' =
              IF supabase_client = None
              THEN [op |-> "stats", status |-> 503, failed |-> {}]
              ELSE IF failed \ {"workout_exercise_logs"} # {}
              THEN [op |-> "stats", status |-> 500, failed |-> failed]
              ELSE [op |-> "stats", status |-> 200, failed |-> failed,
                    out |-> ComputeCompliance(Seen(failed), team_ids, ps, since, now)]
        /\ UNCHANGED <<players, assignments, junction, logs, vbt, now,
                       assignment_seq, deleting, conn, other>>

\* dashboard.py coach_due_workouts with the queries of table `down` raising
coach_due_workouts_raising(user_id, down) ==
    LET team_ids == CoachTeamIds(user_id)
        ps == CoachPlayers(user_id)
        week_ago == now - OneWeek
        two_weeks_ahead == now + TwoWeeks
        as == IF team_ids = {} THEN {}
              ELSE FetchAssignmentsDue(Store, team_ids, week_ago, two_weeks_ahead)
        issued ==
            {"teams"}
            \cup (IF team_ids # {} THEN {"players", "workout_assignments"} ELSE {})
            \cup (IF as # {}
                  THEN {"workout_exercise_logs"}
                       \cup (IF \E a \in as : a.target_type = "players"
                             THEN {"workout_assignment_players"} ELSE {})
                       \cup (IF ps # {} THEN {"vbt_set_summaries"} ELSE {})
                  ELSE {})
        failed == issued \cap {down}
        sb == Seen(failed)
        assignment_ids == {a.id : a \in as}
        jm == FetchJunctionMap(sb, as)
        log_pairs == LogPairs(sb, assignment_ids, week_ago, two_weeks_ahead)
        vbt_rows == FetchVbtRows(sb, {p.id : p \in ps}, week_ago, two_weeks_ahead)
        byId == [aid \in assignment_ids |-> CHOOSE a \in as : a.id = aid]
        elig == [aid \in assignment_ids |-> EligiblePlayerIds(byId[aid], ps, jm)]
        strt == [aid \in assignment_ids |->
                    StartedOf(byId[aid], elig[aid], log_pairs, vbt_rows,
                              week_ago, two_weeks_ahead)]
    IN  /\ resp' =
              IF supabase_client = None
              THEN [op |-> "due", status |-> 503, failed |-> {}]
              ELSE IF failed \ {"workout_exercise_logs"} # {}
              THEN [op |-> "due", status |-> 500, failed |-> failed]
              ELSE [op |-> "due", status |-> 200, failed |-> failed,
                    out |-> [fetched |-> assignment_ids,
                             eligible |-> elig, started |-> strt]]
        /\ UNCHANGED <<players, assignments, junction, logs, vbt, now,
                       assignment_seq, deleting, conn, other>>

\* the request bodies the failure runs draw from: team t1, due now, for the
\* team or for player p1
BodiesFail ==
    {[team_id |-> "t1", template_id |-> "w1", target_type |-> t,
      target_position_group |-> "",
      player_ids |-> IF t = "players" THEN {"p1"} ELSE {},
      start_at |-> None, due_at |-> 0] : t \in {"team", "players"}}

\* the service starts with or without its connection
InitFail ==
    /\ players = InitialPlayers
    /\ assignments = {}
    /\ junction = {}
    /\ logs = {}
    /\ vbt = {}
    /\ now = 0
    /\ resp = NoResp
    /\ assignment_seq = 0
    /\ deleting = {}
    /\ (Connected \/ Unavailable)
    /\ Quiet

CreateAssignmentFail == \E body \in BodiesFail : create_assignment(body)
CoachStatsFail == \E down \in Tables \cup {"none"} : coach_stats("c1", down)
CoachDueWorkoutsFail ==
    \E down \in Tables \cup {"none"} : coach_due_workouts_raising("c1", down)

NextFail ==
    \/ CreateAssignmentFail
    \/ CreateSet
    \/ SubmitWorkoutLog
    \/ CoachStatsFail
    \/ CoachDueWorkoutsFail

SpecFail == InitFail /\ [][NextFail]_vars


\* delete_assignment with the two statements in the other order: the first
\* statement deletes the row of workout_assignments
delete_assignment_row_first(assignment_id) ==
    /\ \E a \in assignments : a.id = assignment_id
    /\ assignment_id \notin deleting
    /\ assignments' = {a \in assignments : a.id # assignment_id}
    /\ deleting' = deleting \cup {assignment_id}
    /\ resp' = NoResp
    /\ UNCHANGED <<players, junction, logs, vbt, now, assignment_seq, conn, other>>

\* workouts.py delete_assignment, line 142: the rows of
\* workout_assignment_players of the assignment are deleted; `deleting` holds
\* the ids of the requests that stand between the two statements. The id is
\* one that create_assignment has returned.
delete_junction_rows(assignment_id) ==
    /\ \E a \in assignments : a.id = assignment_id
    /\ assignment_id \notin deleting
    /\ junction' = {r \in junction : r[1] # assignment_id}
    /\ deleting' = deleting \cup {assignment_id}
    /\ resp' = NoResp
    /\ UNCHANGED <<players, assignments, logs, vbt, now, assignment_seq, conn, other>>

\* workouts.py delete_assignment, line 143: the row of workout_assignments is
\* deleted and the request returns 204
delete_assignment_row(assignment_id) ==
    /\ assignment_id \in deleting
    /\ assignments' = {a \in assignments : a.id # assignment_id}
    /\ deleting' = deleting \ {assignment_id}
    /\ resp' = NoResp
    /\ UNCHANGED <<players, junction, logs, vbt, now, assignment_seq, conn, other>>

\* the request bodies the deletion runs draw from: team t1, for the team or
\* for some of its players
BodiesDelete ==
    {[team_id |-> "t1", template_id |-> "w1", target_type |-> "team",
      target_position_group |-> "", player_ids |-> {},
      start_at |-> None, due_at |-> None]}
    \cup
    {[team_id |-> "t1", template_id |-> "w1", target_type |-> "players",
      target_position_group |-> "", player_ids |-> ids,
      start_at |-> None, due_at |-> None] :
        ids \in {{"p1"}, {"p2"}, {"p1", "p2"}}}

CreateAssignmentDelete == \E body \in BodiesDelete : create_assignment(body)
DeleteJunctionRows == \E id \in 1..MaxAssignments : delete_junction_rows(id)
DeleteAssignmentRow == \E id \in 1..MaxAssignments : delete_assignment_row(id)

NextDelete ==
    \/ CreateAssignmentDelete
    \/ DeleteJunctionRows
    \/ DeleteAssignmentRow
    \/ AssignmentProgress

SpecDelete == Init /\ [][NextDelete]_vars


\* the reports the log runs draw from: one exercise with one of two set
\* counts, two exercises at once, and one exercise listed twice
LogEntry(name, sets) ==
    [exercise_name |-> name, weight_lbs |-> 95,
     sets_completed |-> sets, reps_per_set |-> 8]
LogBodiesLog ==
    {{LogEntry(n, k)} : n \in {"Lunge", "Plank"}, k \in {1, 2}}
    \cup {{LogEntry("Lunge", 1), LogEntry("Plank", 2)},
          {LogEntry("Lunge", 1), LogEntry("Lunge", 2)}}

\* assignment 1 of team t1, on which p1 has reported three sets of Lunge
InitLog ==
    /\ players = InitialPlayers
    /\ assignments =
          {[id |-> 1, team_id |-> "t1", template_id |-> "w1",
            target_type |-> "team", target_position_group |-> "",
            start_at |-> None, due_at |-> None, status |-> "active",
            created_at |-> 0]}
    /\ junction = {}
    /\ logs = {[assignment_id |-> 1, player_id |-> "p1",
                exercise_name |-> "Lunge", weight_lbs |-> 95,
                sets_completed |-> 3, reps_per_set |-> 8, logged_at |-> 0]}
    /\ vbt = {}
    /\ now = 0
    /\ resp = NoResp
    /\ assignment_seq = 1
    /\ deleting = {}
    /\ Connected
    /\ Quiet

SubmitWorkoutLogLog ==
    \E pid \in {"p1", "p2"}, body \in LogBodiesLog :
        submit_workout_log(pid, 1, body)

NextLog ==
    \/ SubmitWorkoutLogLog
    \/ Tick

SpecLog == InitLog /\ [][NextLog]_vars


\* the ratio runs with the list of due workouts read as well
CoachDueWorkoutsRatio == \E u \in Coaches : coach_due_workouts(u)

NextCounts ==
    \/ CreateAssignmentRatio
    \/ CreateSet
    \/ SubmitWorkoutLogRatio
    \/ CoachCompliance
    \/ CoachDueWorkoutsRatio

SpecCounts == Init /\ [][NextCounts]_vars


(***************************************************************************)
(* auth.py                                                                 *)
(***************************************************************************)
\* Python's None where a str is expected (payload.get("sub"), the result of
\* get_optional_user)
NoSub == "None"

\* a JWT by what its verification depends on: the key it is signed with (one
\* of the JWKS keys, the shared secret, or neither), its exp and aud claims,
\* and its sub claim ("" when empty, NoSub when the payload has none)
Tokens ==
    [signed : {"jwks", "secret", "forged"}, expired : BOOLEAN,
     aud : {"authenticated", "other"}, sub : {"u1", "", NoSub}]

\* the Authorization header of a request: none, another scheme, "Bearer "
\* followed by nothing, "Bearer <token>"
Requests ==
    {[header |-> h] : h \in {"missing", "basic", "bearer_blank"}}
    \cup {[header |-> "bearer", token |-> t] : t \in Tokens}

\* _extract_token: None without the header or with another scheme, else the
\* stripped rest of the header, which may be ""
ExtractToken(request) ==
    IF request.header = "bearer" THEN [value |-> "token", token |-> request.token]
    ELSE IF request.header = "bearer_blank" THEN [value |-> ""]
    ELSE [value |-> "None"]

\* _get_jwks_client: the cached client, else a new one when supabase_url is
\* set, else None
GetJwksClient == IF jwks_client # None THEN jwks_client
                 ELSE IF settings.supabase_url THEN 1 ELSE None

\* jwks.get_signing_key_from_jwt followed by jwt.decode with the asymmetric
\* algorithms: the key set must be fetched (up) and hold the token's key, and
\* the claims must pass; every failure is an exception
JwksDecodes(token, up) ==
    /\ up
    /\ token.signed = "jwks"
    /\ ~ token.expired
    /\ token.aud = "authenticated"

\* jwt.decode(token, secret, algorithms=["HS256"], audience="authenticated"):
\* the signature is verified first, then exp, then aud
Hs256Decode(token) ==
    IF token.signed # "secret" THEN "InvalidTokenError"
    ELSE IF token.expired THEN "ExpiredSignatureError"
    ELSE IF token.aud # "authenticated" THEN "InvalidTokenError"
    ELSE "payload"

\* _decode_token with the shared secret consulted first
DecodeTokenSecretFirst(token, up) ==
    IF settings.supabase_jwt_secret /\ Hs256Decode(token) = "payload"
    THEN [outcome |-> "payload", tried |-> <<"hs256">>]
    ELSE IF GetJwksClient # None /\ JwksDecodes(token, up)
    THEN [outcome |-> "payload",
          tried |-> IF settings.supabase_jwt_secret
                    THEN <<"hs256", "jwks">> ELSE <<"jwks">>]
    ELSE [outcome |-> "InvalidTokenError", tried |-> <<"hs256", "jwks">>]

\* _decode_token: the payload, or the exception that leaves the function;
\* `tried` lists the verification methods in the order they were consulted
DecodeToken(token, up) ==
    LET jwks == GetJwksClient
        first == IF jwks # None THEN <<"jwks">> ELSE <<>>
    IN  IF jwks # None /\ JwksDecodes(token, up)
        THEN [outcome |-> "payload", tried |-> first]
        ELSE IF settings.supabase_jwt_secret
        THEN [outcome |-> Hs256Decode(token), tried |-> first \o <<"hs256">>]
        ELSE [outcome |-> "InvalidTokenError", tried |-> first]

\* what a dependency leaves behind: _get_jwks_client is called when there is
\* a token to decode
AfterDecode(extracted) ==
    /\ jwks_client' = IF extracted.value = "token" THEN GetJwksClient
                      ELSE jwks_client
    /\ UNCHANGED <<players, assignments, junction, logs, vbt, now,
                   assignment_seq, deleting, conn, settings, current, history,
                   upserts, upsert_seq, rfid_tags, rfid_tag_id, raw_sets,
                   creating>>

\* get_optional_user that lets the failure of the verification out
get_optional_user_raising(request, up) ==
    LET extracted == ExtractToken(request)
        decoded == DecodeToken(extracted.token, up)
    IN  /\ resp' =
              IF extracted.value # "token"
              THEN [op |-> "optional_user", request |-> request, jwks_up |-> up,
                    raised |-> FALSE, user_id |-> NoSub]
              ELSE IF decoded.outcome # "payload"
              THEN [op |-> "optional_user", request |-> request, jwks_up |-> up,
                    raised |-> TRUE, decoded |-> decoded]
              ELSE [op |-> "optional_user", request |-> request, jwks_up |-> up,
                    raised |-> FALSE, user_id |-> extracted.token.sub,
                    decoded |-> decoded]
        /\ AfterDecode(extracted)

\* get_current_user without `if not user_id`
get_current_user_any_sub(request, up) ==
    LET extracted == ExtractToken(request)
        decoded == DecodeToken(extracted.token, up)
    IN  /\ resp' =
              IF extracted.value # "token"
              THEN [op |-> "current_user", request |-> request, jwks_up |-> up,
                    status |-> 401, detail |-> "Missing authorization header"]
              ELSE IF decoded.outcome # "payload"
              THEN [op |-> "current_user", request |-> request, jwks_up |-> up,
                    status |-> 401, detail |-> "Invalid token",
                    decoded |-> decoded]
              ELSE [op |-> "current_user", request |-> request, jwks_up |-> up,
                    status |-> 200, user_id |-> extracted.token.sub,
                    decoded |-> decoded]
        /\ AfterDecode(extracted)

\* get_current_user: the user id, or HTTPException(401)
get_current_user(request, up) ==
    LET extracted == ExtractToken(request)
        decoded == DecodeToken(extracted.token, up)
    IN  /\ resp' =
              IF extracted.value # "token"
              THEN [op |-> "current_user", request |-> request, jwks_up |-> up,
                    status |-> 401, detail |-> "Missing authorization header"]
              ELSE IF decoded.outcome = "ExpiredSignatureError"
              THEN [op |-> "current_user", request |-> request, jwks_up |-> up,
                    status |-> 401, detail |-> "Token expired",
                    decoded |-> decoded]
              ELSE IF decoded.outcome = "InvalidTokenError"
              THEN [op |-> "current_user", request |-> request, jwks_up |-> up,
                    status |-> 401, detail |-> "Invalid token",
                    decoded |-> decoded]
              ELSE IF extracted.token.sub \in {"", NoSub}
              THEN [op |-> "current_user", request |-> request, jwks_up |-> up,
                    status |-> 401, detail |-> "Invalid token: no sub claim",
                    decoded |-> decoded]
              ELSE [op |-> "current_user", request |-> request, jwks_up |-> up,
                    status |-> 200, user_id |-> extracted.token.sub,
                    decoded |-> decoded]
        /\ AfterDecode(extracted)

\* get_optional_user: the payload's sub, or None without a token and after
\* any exception of the verification
get_optional_user(request, up) ==
    LET extracted == ExtractToken(request)
        decoded == DecodeToken(extracted.token, up)
    IN  /\ resp' =
              IF extracted.value # "token"
              THEN [op |-> "optional_user", request |-> request, jwks_up |-> up,
                    raised |-> FALSE, user_id |-> NoSub]
              ELSE IF decoded.outcome # "payload"
              THEN [op |-> "optional_user", request |-> request, jwks_up |-> up,
                    raised |-> FALSE, user_id |-> NoSub, decoded |-> decoded]
              ELSE [op |-> "optional_user", request |-> request, jwks_up |-> up,
                    raised |-> FALSE, user_id |-> extracted.token.sub,
                    decoded |-> decoded]
        /\ AfterDecode(extracted)

\* the service starts with any of the four configurations of config.py
InitAuth ==
    /\ players = InitialPlayers
    /\ assignments = {}
    /\ junction = {}
    /\ logs = {}
    /\ vbt = {}
    /\ now = 0
    /\ resp = NoResp
    /\ assignment_seq = 0
    /\ deleting = {}
    /\ Connected
    /\ settings \in [supabase_url : BOOLEAN, supabase_jwt_secret : BOOLEAN]
    /\ jwks_client = None
    /\ current = {}
    /\ history = <<>>
    /\ upserts = {}
    /\ upsert_seq = 0
    /\ rfid_tags = {}
    /\ rfid_tag_id = [p \in PlayerIds |-> None]
    /\ raw_sets = {}
    /\ creating = {}

\* a request arrives; the key set can or cannot be fetched
GetCurrentUser ==
    \E request \in Requests, up \in BOOLEAN : get_current_user(request, up)
GetOptionalUser ==
    \E request \in Requests, up \in BOOLEAN : get_optional_user(request, up)

NextAuth ==
    \/ GetCurrentUser
    \/ GetOptionalUser

SpecAuth == InitAuth /\ [][NextAuth]_vars


(***************************************************************************)
(* maxes.py and testing.py                                                 *)
(***************************************************************************)
\* the two pairs of tables: player_maxes with player_max_history, keyed by
\* (player_id, exercise), and player_testing with player_testing_history,
\* keyed by (player_id, metric_name)
UpsertTables == {"player_maxes", "player_testing"}

\* upsert_player_max / upsert_player_testing, lines 42-50: a request of
\* thread t arrives, its weight (value) being the number of the request, and
\* reads the current row of its key, None when there is none
upsert_select(t, table, player_id, key) ==
    LET value == upsert_seq + 1
        rows == {r \in current : /\ r.table = table
                                 /\ r.player_id = player_id
                                 /\ r.key = key}
    IN  /\ value <= MaxUpserts
        /\ ~ \E u \in upserts : u.t = t
        /\ upsert_seq' = value
        /\ upserts' = upserts \cup
              {[t |-> t, table |-> table, player_id |-> player_id, key |-> key,
                value |-> value, pc |-> "l51",
                existing |-> IF rows = {} THEN <<>>
                             ELSE <<CHOOSE r \in rows : TRUE>>]}
        /\ resp' = NoResp
        /\ UNCHANGED <<players, assignments, junction, logs, vbt, now,
                       assignment_seq, deleting, conn, settings, jwks_client,
                       current, history, rfid_tags, rfid_tag_id, raw_sets,
                       creating>>

\* lines 51-57: `if existing.data:` the row that was read is inserted into
\* the history table
upsert_archive(u) ==
    /\ u.pc = "l51"
    /\ history' = IF u.existing # <<>> THEN Append(history, u.existing[1])
                  ELSE history
    /\ upserts' = (upserts \ {u}) \cup {[u EXCEPT !.pc = "l60"]}
    /\ resp' = NoResp
    /\ UNCHANGED <<players, assignments, junction, logs, vbt, now,
                   assignment_seq, deleting, conn, settings, jwks_client,
                   current, upsert_seq, rfid_tags, rfid_tag_id, raw_sets,
                   creating>>

\* lines 59-73: the new value is upserted on the key and returned
upsert_write(u) ==
    /\ u.pc = "l60"
    /\ current' =
          {r \in current : ~ (/\ r.table = u.table
                              /\ r.player_id = u.player_id
                              /\ r.key = u.key)}
          \cup {[table |-> u.table, player_id |-> u.player_id, key |-> u.key,
                 value |-> u.value, tested_at |-> now]}
    /\ upserts' = upserts \ {u}
    /\ resp' = NoResp
    /\ UNCHANGED <<players, assignments, junction, logs, vbt, now,
                   assignment_seq, deleting, conn, settings, jwks_client,
                   history, upsert_seq, rfid_tags, rfid_tag_id, raw_sets,
                   creating>>

\* requests of the worker threads for the squat max and the sprint time of
\* player p1
UpsertSelect ==
    \E t \in Threads :
        \/ upsert_select(t, "player_maxes", "p1", "Back Squat")
        \/ upsert_select(t, "player_testing", "p1", "40yd")
UpsertArchive == \E u \in upserts : upsert_archive(u)
UpsertWrite == \E u \in upserts : upsert_write(u)

NextUpsert ==
    \/ UpsertSelect
    \/ UpsertArchive
    \/ UpsertWrite

SpecUpsert == Init /\ [][NextUpsert]_vars


(***************************************************************************)
(* workouts.py: create_assignment statement by statement                   *)
(***************************************************************************)
\* create_assignment, lines 110-125: the row of workout_assignments is
\* inserted and the store returns it with its id; a request for selected
\* players goes on to line 128, any other returns
insert_assignment_row(body) ==
    /\ assignment_seq < MaxAssignments
    /\ LET id == assignment_seq + 1
           row == [id |-> id,
                   team_id |-> body.team_id,
                   template_id |-> body.template_id,
                   target_type |-> body.target_type,
                   target_position_group |->
                       IF body.target_type = "position_group"
                       THEN body.target_position_group ELSE "",
                   start_at |-> body.start_at,
                   due_at |-> body.due_at,
                   status |-> "active",
                   created_at |-> now]
       IN  /\ assignments' = assignments \cup {row}
           /\ assignment_seq' = id
           /\ creating' =
                  IF body.target_type = "players" /\ body.player_ids # {}
                  THEN creating \cup {[id |-> id, player_ids |-> body.player_ids]}
                  ELSE creating
    /\ resp' = NoResp
    /\ UNCHANGED <<players, junction, logs, vbt, now, deleting, conn,
                   settings, jwks_client, current, history, upserts,
                   upsert_seq, rfid_tags, rfid_tag_id, raw_sets>>

\* create_assignment, lines 128-135: the junction rows are inserted. When the
\* assignment row is gone by then, the store takes the rows or rejects them
\* (execute() raises), as its schema has it
insert_junction_rows(c) ==
    /\ c \in creating
    /\ \/ junction' = junction \cup {<<c.id, pid>> : pid \in c.player_ids}
       \/ /\ ~ \E a \in assignments : a.id = c.id
          /\ junction' = junction
    /\ creating' = creating \ {c}
    /\ resp' = NoResp
    /\ UNCHANGED <<players, assignments, logs, vbt, now, assignment_seq,
                   deleting, conn, settings, jwks_client, current, history,
                   upserts, upsert_seq, rfid_tags, rfid_tag_id, raw_sets>>

\* the request bodies the interleaving runs draw from: team t1, for the team,
\* for a position group, for selected players
BodiesRace ==
    {[team_id |-> "t1", template_id |-> "w1", target_type |-> tt,
      target_position_group |-> IF tt = "players" THEN "" ELSE "power",
      player_ids |-> IF tt = "players" THEN {"p1", "p2"} ELSE {},
      start_at |-> None, due_at |-> None] :
        tt \in {"team", "position_group", "players"}}

InsertAssignmentRow == \E body \in BodiesRace : insert_assignment_row(body)
InsertJunctionRows == \E c \in creating : insert_junction_rows(c)

NextRace ==
    \/ InsertAssignmentRow
    \/ InsertJunctionRows
    \/ DeleteJunctionRows
    \/ DeleteAssignmentRow

SpecRace == Init /\ [][NextRace]_vars


(***************************************************************************)
(* rfid.py                                                                 *)
(***************************************************************************)
\* Python's None for assigned_player_id: Optional[str]
NoPlayer == "None"

\* create_rfid_tag: the row is inserted with the id the store gives it and no
\* player
create_rfid_tag(uid, team_id) ==
    /\ Cardinality(rfid_tags) < MaxTags
    /\ rfid_tags' = rfid_tags \cup
          {[id |-> Cardinality(rfid_tags) + 1, uid |-> uid, team_id |-> team_id,
            assigned_player_id |-> NoPlayer]}
    /\ resp' = NoResp
    /\ UNCHANGED <<players, assignments, junction, logs, vbt, now,
                   assignment_seq, deleting, conn, settings, jwks_client,
                   current, history, upserts, upsert_seq, rfid_tag_id,
                   raw_sets, creating>>

\* assign_rfid_tag: the tag's assigned_player_id is updated, 404 when no row
\* has the id; then the player's rfid_tag_id is updated. The response keeps
\* the players' column as it was before the call.
assign_rfid_tag(tag_id, player_id) ==
    LET found == {t \in rfid_tags : t.id = tag_id}
    IN  /\ rfid_tags' =
              {IF t.id = tag_id THEN [t EXCEPT !.assigned_player_id = player_id]
               ELSE t : t \in rfid_tags}
        /\ rfid_tag_id' =
              IF found # {} /\ \E p \in players : p.id = player_id
              THEN [rfid_tag_id EXCEPT ![player_id] = tag_id]
              ELSE rfid_tag_id
        /\ resp' = [op |-> "assign_rfid_tag",
                    status |-> IF found = {} THEN 404 ELSE 200,
                    tag_id |-> tag_id, player_id |-> player_id,
                    before |-> rfid_tag_id]
        /\ UNCHANGED <<players, assignments, junction, logs, vbt, now,
                       assignment_seq, deleting, conn, settings, jwks_client,
                       current, history, upserts, upsert_seq, raw_sets,
                       creating>>

\* the coach registers tags for team t1 and hands them to its players
CreateRfidTag == \E uid \in {"04:A1", "04:B2"} : create_rfid_tag(uid, "t1")
AssignRfidTag ==
    \E tag_id \in 1..MaxTags, pid \in {"p1", "p2"} : assign_rfid_tag(tag_id, pid)

NextRfid ==
    \/ CreateRfidTag
    \/ AssignRfidTag

SpecRfid == Init /\ [][NextRfid]_vars


(***************************************************************************)
(* vbt.py delete_set, on the sets device.py records                        *)
(***************************************************************************)
\* device.py create_set, lines 47-100: the raw set row with the team the
\* device names (body.team_id is stored as sent) and the summary row of the
\* set
create_raw_set(player_id, team_id, exercise) ==
    LET free   == {i \in 1..MaxRawSets : ~ \E s \in raw_sets : s.id = i}
        set_id == CHOOSE i \in free : \A k \in free : i <= k
    IN  /\ free # {}
        /\ raw_sets' = raw_sets \cup
              {[id |-> set_id, player_id |-> player_id, team_id |-> team_id]}
        /\ vbt' = vbt \cup {[id |-> set_id,
                             raw_set_id |-> set_id,
                             player_id |-> player_id,
                             exercise |-> exercise,
                             created_at |-> now]}
        /\ resp' = NoResp
        /\ UNCHANGED <<players, assignments, junction, logs, now,
                       assignment_seq, deleting, conn, settings, jwks_client,
                       current, history, upserts, upsert_seq, rfid_tags,
                       rfid_tag_id, creating>>

\* delete_set without the test of the coach: any signed-in user deletes
delete_set_any_user(raw_set_id, user_id) ==
    LET set_resp == {s \in raw_sets : s.id = raw_set_id}
    IN  /\ raw_sets' = raw_sets \ set_resp
        /\ vbt' = IF set_resp = {} THEN vbt
                  ELSE {s \in vbt : s.raw_set_id # raw_set_id}
        /\ resp' = [op |-> "delete_set",
                    status |-> IF set_resp = {} THEN 404 ELSE 204,
                    raw_set_id |-> raw_set_id, user_id |-> user_id]
        /\ UNCHANGED <<players, assignments, junction, logs, now,
                       assignment_seq, deleting, conn, settings, jwks_client,
                       current, history, upserts, upsert_seq, rfid_tags,
                       rfid_tag_id, creating>>

\* delete_set: 404 when no raw set has the id; 403 when the set's team has no
\* row or another coach; otherwise the raw set is deleted and the store
\* removes its summaries with it
delete_set(raw_set_id, user_id) ==
    LET set_resp  == {s \in raw_sets : s.id = raw_set_id}
        team_resp == {t \in teams : \E s \in set_resp : t.id = s.team_id}
        status    == IF set_resp = {} THEN 404
                     ELSE IF team_resp = {}
                             \/ \E t \in team_resp : t.coach_id # user_id
                          THEN 403
                          ELSE 204
    IN  /\ raw_sets' = IF status = 204 THEN raw_sets \ set_resp ELSE raw_sets
        /\ vbt' = IF status = 204
                  THEN {s \in vbt : s.raw_set_id # raw_set_id}
                  ELSE vbt
        /\ resp' = [op |-> "delete_set", status |-> status,
                    raw_set_id |-> raw_set_id, user_id |-> user_id]
        /\ UNCHANGED <<players, assignments, junction, logs, now,
                       assignment_seq, deleting, conn, settings, jwks_client,
                       current, history, upserts, upsert_seq, rfid_tags,
                       rfid_tag_id, creating>>

\* devices of team t1, of team t2 and one naming a team without a row
CreateRawSet ==
    \E pid \in {"p1", "p2"}, team_id \in {"t1", "t2", "t0"} :
        create_raw_set(pid, team_id, "Back Squat")
DeleteSet ==
    \E raw_set_id \in 1..MaxRawSets, user_id \in Coaches :
        delete_set(raw_set_id, user_id)

NextSets ==
    \/ CreateRawSet
    \/ DeleteSet

SpecSets == Init /\ [][NextSets]_vars


(***************************************************************************)
(* Eligibility (checked under SpecElig)                                    *)
(***************************************************************************)
\* the stored row of an assignment id
RowOf(aid) == CHOOSE a \in assignments : a.id = aid
\* the junction-table membership of an assignment id
Members(aid) == {r[2] : r \in {x \in junction : x[1] = aid}}
\* the ids of the players whose team_id is the team
RosterIds(team_id) == {p.id : p \in {x \in players : x.team_id = team_id}}
\* a compliance response is at hand
IsCompliance == resp.op = "compliance"
\* a progress grid is at hand
IsProgress == resp.op = "progress" /\ resp.status = 200

\* C2: for every assignment with target_type "players" the eligible set is
\* exactly the junction-table membership of the assignment, in
\* _eligible_player_ids and in the player list of get_assignment_progress,
\* whether or not the members are on the team roster.
PlayersTargetIsJunction ==
    /\ IsCompliance =>
          \A aid \in resp.out.fetched :
              RowOf(aid).target_type = "players"
                  => resp.out.eligible[aid] = Members(aid)
    /\ (IsProgress /\ resp.assignment.target_type = "players")
          => resp.players = Members(resp.assignment.id)

\* C3: for every assignment with target_type "team", _eligible_player_ids
\* returns exactly the ids of the players whose team_id is the assignment's
\* team, the empty set when the team has no players.
TeamTargetIsRoster ==
    IsCompliance =>
        \A aid \in resp.out.fetched :
            RowOf(aid).target_type = "team"
                => resp.out.eligible[aid] = RosterIds(RowOf(aid).team_id)

\* C3 witness: a team-targeted assignment of a team without players resolved
\* to the empty set next to one resolved to a roster of two.
TeamTargetResolved ==
    /\ IsCompliance
    /\ \E aid \in resp.out.fetched :
          /\ RowOf(aid).target_type = "team"
          /\ RosterIds(RowOf(aid).team_id) = {}
          /\ resp.out.eligible[aid] = {}
    /\ \E aid \in resp.out.fetched :
          /\ RowOf(aid).target_type = "team"
          /\ Cardinality(resp.out.eligible[aid]) = 2

\* the players of a team in a position group
GroupIds(team_id, group) ==
    {p.id : p \in {x \in players : x.team_id = team_id /\ x.position_group = group}}

\* C4: for every assignment with target_type "position_group" the eligible
\* set is exactly the team's players of the assignment's group, in
\* _eligible_player_ids and in get_assignment_progress; no match gives the
\* empty set.
GroupTargetIsGroup ==
    /\ IsCompliance =>
          \A aid \in resp.out.fetched :
              RowOf(aid).target_type = "position_group"
                  => resp.out.eligible[aid] =
                        GroupIds(RowOf(aid).team_id, RowOf(aid).target_position_group)
    /\ (IsProgress /\ resp.assignment.target_type = "position_group")
          => resp.players =
                GroupIds(resp.assignment.team_id, resp.assignment.target_position_group)

\* C4 witness: a group no player of a team with players is in resolved to the
\* empty set, next to a group resolved to its one player.
GroupTargetResolved ==
    /\ IsCompliance
    /\ \E aid \in resp.out.fetched :
          /\ RowOf(aid).target_type = "position_group"
          /\ RosterIds(RowOf(aid).team_id) # {}
          /\ resp.out.eligible[aid] = {}
    /\ \E aid \in resp.out.fetched :
          /\ RowOf(aid).target_type = "position_group"
          /\ resp.out.eligible[aid] # {}
          /\ resp.out.eligible[aid] # RosterIds(RowOf(aid).team_id)

\* C5: an assignment whose target_type is missing or is none of team,
\* position_group, players is resolved as the team case: the whole roster is
\* eligible in _eligible_player_ids, listed by get_assignment_progress, and
\* get_active_workouts keeps the assignment for every player of the team.
UnknownTargetIsTeam ==
    /\ IsCompliance =>
          \A aid \in resp.out.fetched :
              RowOf(aid).target_type \notin TargetType
                  => resp.out.eligible[aid] = RosterIds(RowOf(aid).team_id)
    /\ (IsProgress /\ resp.assignment.target_type \notin TargetType)
          => resp.players = RosterIds(resp.assignment.team_id)
    /\ (resp.op = "active_workouts" /\ resp.status = 200)
          => \A a \in assignments :
                (a.target_type \notin TargetType /\ a.team_id = resp.player.team_id)
                    => a.id \in resp.assignment_ids

\* C5 witness: a stored row with an unrecognized target_type resolved to a
\* roster of two although junction rows of another assignment exist.
UnknownTargetResolved ==
    /\ IsCompliance
    /\ junction # {}
    /\ \E aid \in resp.out.fetched :
          /\ RowOf(aid).target_type = "squad"
          /\ Cardinality(resp.out.eligible[aid]) = 2


(***************************************************************************)
(* Compliance (checked under Spec and SpecRatio)                           *)
(***************************************************************************)
\* a response that carries the eligible and started sets of its assignments
HasStarted == resp.op \in {"compliance", "due_workouts"}
\* a self-report row exists for (assignment id, player id)
HasLog(aid, pid) ==
    \E l \in logs : l.assignment_id = aid /\ l.player_id = pid
\* the effective window of an assignment under the fallbacks of the response
WinStart(aid) == OrElse(RowOf(aid).start_at, resp.since)
WinEnd(aid) == OrElse(RowOf(aid).due_at, resp.until)
\* the sensor rows the response was computed from: those of the caller's
\* players stamped inside the reporting window
RowsSeen ==
    {v \in vbt : /\ v.player_id \in {p.id : p \in resp.roster}
                 /\ resp.since <= v.created_at
                 /\ v.created_at <= resp.until}

\* C1: in _compute_compliance, for every assignment due in [since, until] and
\* every player, the pair is counted as started iff the player is eligible
\* and a self-report row exists for the pair or the player has a stored sensor
\* summary stamped inside the assignment's window [start_at or since, due_at
\* or until], also when that stamp is before `since`.
StartedIffActivityInWindow ==
    IsCompliance =>
        \A aid \in resp.out.fetched, pid \in PlayerIds :
            pid \in resp.out.started[aid]
                <=> /\ pid \in resp.out.eligible[aid]
                    /\ \/ HasLog(aid, pid)
                       \/ \E v \in vbt :
                             /\ v.player_id = pid
                             /\ WinStart(aid) <= v.created_at
                             /\ v.created_at <= WinEnd(aid)

EligiblePairs(tid) ==
    {x \in resp.out.fetched \X PlayerIds :
        RowOf(x[1]).team_id = tid /\ x[2] \in resp.out.eligible[x[1]]}
StartedPairs(tid) ==
    {x \in resp.out.fetched \X PlayerIds :
        RowOf(x[1]).team_id = tid /\ x[2] \in resp.out.started[x[1]]}
\* the assignments of the caller's teams due in the reporting window
DueInWindow ==
    {a.id : a \in {x \in assignments :
                      /\ x.team_id \in resp.team_ids
                      /\ x.due_at # None
                      /\ resp.since <= x.due_at
                      /\ x.due_at <= resp.until}}
\* r is num / den * 100 rounded to the nearest integer, a tie to the even one
IsRounded(r, num, den) ==
    LET d == r * den - 100 * num
        dist == IF d < 0 THEN 0 - d ELSE d
    IN  /\ 2 * dist <= den
        /\ 2 * dist = den => r % 2 = 0

\* C7: the compliance value of every team passed to _compute_compliance is
\* round(started / eligible * 100) of the counts summed over the team's
\* assignments due in the window, and 0 when the eligible count is 0.
PerTeamIsRoundedRatio ==
    IsCompliance =>
        /\ DOMAIN resp.out.per_team = resp.team_ids
        /\ resp.team_ids # {} => resp.out.fetched = DueInWindow
        /\ \A tid \in resp.team_ids :
              LET e == Cardinality(EligiblePairs(tid))
                  st == Cardinality(StartedPairs(tid))
              IN  IF e = 0 THEN resp.out.per_team[tid] = 0
                  ELSE IsRounded(resp.out.per_team[tid], st, e)

\* C7 witness: a team with two assignments in the window and two of three
\* eligible pairs started reports 67, a team without eligible players 0.
PerTeamRounded ==
    /\ IsCompliance
    /\ \E tid \in resp.team_ids :
          /\ Cardinality({aid \in resp.out.fetched : RowOf(aid).team_id = tid}) = 2
          /\ Cardinality(EligiblePairs(tid)) = 3
          /\ Cardinality(StartedPairs(tid)) = 2
          /\ resp.out.per_team[tid] = 67
    /\ \E tid \in resp.team_ids :
          /\ Cardinality(EligiblePairs(tid)) = 0
          /\ resp.out.per_team[tid] = 0

\* the pairs of all teams
AllEligiblePairs ==
    {x \in resp.out.fetched \X PlayerIds : x[2] \in resp.out.eligible[x[1]]}
AllStartedPairs ==
    {x \in resp.out.fetched \X PlayerIds : x[2] \in resp.out.started[x[1]]}

\* C8: the overall value of _compute_compliance is round(S / E * 100) with S
\* and E the started and eligible counts summed over all teams, and 0 when E
\* is 0, as for a coach without teams or without an assignment in the window.
OverallIsRoundedRatio ==
    IsCompliance =>
        LET e == Cardinality(AllEligiblePairs)
            st == Cardinality(AllStartedPairs)
        IN  IF e = 0 THEN resp.out.overall = 0
            ELSE IsRounded(resp.out.overall, st, e)

\* C8 witness: the teams report 50 and 100 and the overall value is 67, two of
\* three eligible pairs.
OverallRounded ==
    /\ IsCompliance
    /\ \E t1 \in resp.team_ids, t2 \in resp.team_ids :
          /\ resp.out.per_team[t1] = 50
          /\ resp.out.per_team[t2] = 100
    /\ Cardinality(AllEligiblePairs) = 3
    /\ resp.out.overall = 67

\* the compliance a coach is shown at the current time over the tables sb
ComplianceOver(sb, user_id) ==
    ComputeCompliance(sb, CoachTeamIds(user_id), CoachPlayers(user_id),
                      now - TwoWeeks, now)
\* a step that only adds activity: a sensor summary or a self-report row
ActivityAdded ==
    /\ vbt' # vbt \/ logs' # logs
    /\ UNCHANGED <<players, assignments, junction, now>>

\* C9: compliance is monotonic: a step that adds a self-report row or a
\* sensor summary, the eligible counts fixed, decreases neither the compliance
\* of any team nor the overall value.
ComplianceMonotonic ==
    [][ActivityAdded =>
          \A u \in Coaches :
              LET before == ComplianceOver(Store, u)
                  after == ComplianceOver([Store EXCEPT !.logs = logs',
                                                        !.vbt = vbt'], u)
              IN  /\ after.team_eligible = before.team_eligible
                  /\ \A tid \in CoachTeamIds(u) :
                        after.per_team[tid] >= before.per_team[tid]
                  /\ after.overall >= before.overall]_vars

\* C9 witness: a team reports a started player and has an eligible player who
\* has not started, its percentage strictly between 0 and 100.
PartlyStarted ==
    /\ IsCompliance
    /\ \E tid \in resp.team_ids :
          /\ resp.out.team_started[tid] >= 1
          /\ resp.out.team_started[tid] < resp.out.team_eligible[tid]
          /\ resp.out.per_team[tid] > 0
          /\ resp.out.per_team[tid] < 100

\* C10: self-report rows are matched by (assignment id, player id) only, with
\* no test of their timestamp: an eligible player with a row for the
\* assignment is started whenever the row was logged, while without a row a
\* player is started by no sensor row outside the assignment's window.
LogCountsWithoutWindow ==
    HasStarted =>
        \A aid \in resp.out.fetched :
            \A pid \in resp.out.eligible[aid] :
                /\ HasLog(aid, pid) => pid \in resp.out.started[aid]
                /\ (/\ ~ HasLog(aid, pid)
                    /\ \A v \in vbt :
                          v.player_id = pid =>
                              \/ v.created_at < WinStart(aid)
                              \/ v.created_at > WinEnd(aid))
                       => pid \notin resp.out.started[aid]

\* C10 witness: a row logged after the end of the window made its player
\* started, and a sensor row stamped after the end left another eligible
\* player not started.
LateLogCounted ==
    /\ HasStarted
    /\ \E aid \in resp.out.fetched :
          /\ \E l \in logs :
                /\ l.assignment_id = aid
                /\ l.logged_at > WinEnd(aid)
                /\ l.player_id \in resp.out.started[aid]
          /\ \E v \in RowsSeen :
                /\ v.created_at > WinEnd(aid)
                /\ v.player_id \in resp.out.eligible[aid]
                /\ v.player_id \notin resp.out.started[aid]


(***************************************************************************)
(* The connection singleton (checked under SpecDb)                         *)
(***************************************************************************)
\* a thread is past a successful create_client and has not yet left the
\* initialisation
InitInProgress ==
    \E t \in Threads : pc[t] \in {"l43", "exit"} /\ supabase_client # None

\* C16: under every interleaving of get_supabase calls during a cold start
\* create_client is invoked at most once, all calls return the same value,
\* and no call has returned None while a successful initialisation is in
\* progress.
InitialisedOnce ==
    /\ created <= 1
    /\ Cardinality(returned) <= 1
    /\ (InitInProgress /\ ~ init_done) => returned = {}
    /\ InitInProgress => None \notin returned
    /\ init_done => returned \subseteq {supabase_client}

\* C16 witness: a thread that found _init_done unset at line 22 waited for the
\* lock and found it set at line 26, while the handle of the one create_client
\* call has been returned.
ColdStartRace ==
    /\ \E t \in Threads : pc[t] = "l27"
    /\ created = 1
    /\ returned = {1}


(***************************************************************************)
(* The exercise parser (checked under SpecParse)                           *)
(***************************************************************************)
\* a list of exercises has been parsed
IsParse == resp.op = "parse"
\* the content carries the version marker 2
IsVersioned(content) == "version" \in DOMAIN content /\ content.version = 2
\* the exercises of a content
ExercisesOf(content) ==
    IF "exercises" \in DOMAIN content THEN content.exercises ELSE <<>>
\* the mode the allow-list gives a name
AllowListMode(name) ==
    IF name \in {"Back Squat", "Front Squat", "Bench Press", "Overhead Press",
                 "Deadlift", "Trap Bar Deadlift", "Romanian Deadlift",
                 "Power Clean", "Hang Clean", "Push Press"}
    THEN "vbt" ELSE "self_report"
\* the sum of `sets` over the set-groups 1..n of a list
RECURSIVE SetsUpTo(_, _)
SetsUpTo(groups, n) ==
    IF n = 0 THEN 0 ELSE groups[n].sets + SetsUpTo(groups, n - 1)
\* a versioned entry with a name and set-groups that all carry `sets`
CompleteV2(ex) ==
    /\ {"exerciseName", "setGroups"} \subseteq DOMAIN ex
    /\ \A i \in DOMAIN ex.setGroups : "sets" \in DOMAIN ex.setGroups[i]
\* a legacy entry with a name and a set count
CompleteLegacy(ex) == {"name", "sets"} \subseteq DOMAIN ex

\* C11: for a content with version 2, _parse_exercises gives each exercise
\* the sum of `sets` over its set-groups as sets_required and, as tracking
\* mode, the stored trackingMode when there is one, else the mode the
\* allow-list gives the name.
VersionedParse ==
    (IsParse /\ IsVersioned(resp.content)) =>
        LET xs == ExercisesOf(resp.content)
        IN  /\ DOMAIN resp.out = DOMAIN xs
            /\ \A i \in DOMAIN xs :
                  CompleteV2(xs[i]) =>
                      /\ resp.out[i].exercise_name = xs[i].exerciseName
                      /\ resp.out[i].sets_required =
                            SetsUpTo(xs[i].setGroups, Len(xs[i].setGroups))
                      /\ resp.out[i].tracking_mode =
                            IF "trackingMode" \in DOMAIN xs[i]
                            THEN xs[i].trackingMode
                            ELSE AllowListMode(xs[i].exerciseName)

\* C11 witness: set-groups of 3 and 2 sets parsed to 5 next to one group of 4
\* parsed to 4, one entry with a stored mode the allow-list would not give.
VersionedParsed ==
    /\ IsParse
    /\ IsVersioned(resp.content)
    /\ Len(resp.out) = 2
    /\ resp.out[1].sets_required = 5
    /\ resp.out[2].sets_required = 4
    /\ resp.out[1].exercise_name = "Back Squat"
    /\ resp.out[1].tracking_mode = "self_report"
    /\ resp.out[2].tracking_mode = "self_report"
    /\ "trackingMode" \notin DOMAIN resp.content.exercises[2]

\* the versioned form of a legacy entry: the name and one set-group of the
\* entry's set count
AsVersioned(ex) ==
    [exerciseName |-> ex.name, setGroups |-> <<[sets |-> ex.sets]>>]

\* C12: for a content without version marker or with another version than 2,
\* _parse_exercises gives each exercise its name, its `sets` count as
\* sets_required and the mode the allow-list gives the name, whatever
\* trackingMode the entry stores; the versioned content of the same names
\* with one set-group of the same size each parses to the same list.
LegacyParse ==
    (IsParse /\ ~ IsVersioned(resp.content)) =>
        LET xs == ExercisesOf(resp.content)
        IN  /\ DOMAIN resp.out = DOMAIN xs
            /\ \A i \in DOMAIN xs :
                  CompleteLegacy(xs[i]) =>
                      /\ resp.out[i].exercise_name = xs[i].name
                      /\ resp.out[i].sets_required = xs[i].sets
                      /\ resp.out[i].tracking_mode = AllowListMode(xs[i].name)
            /\ (\A i \in DOMAIN xs : CompleteLegacy(xs[i])) =>
                  resp.out =
                      ParseExercises([version |-> 2,
                                      exercises |->
                                          [i \in DOMAIN xs |-> AsVersioned(xs[i])]])

\* C12 witness: a legacy list of two entries, one storing a trackingMode the
\* allow-list does not give its name, parsed with the allow-list's modes.
LegacyParsed ==
    /\ IsParse
    /\ "version" \notin DOMAIN resp.content
    /\ Len(resp.out) = 2
    /\ \A i \in 1..2 : CompleteLegacy(resp.content.exercises[i])
    /\ "trackingMode" \in DOMAIN resp.content.exercises[1]
    /\ resp.content.exercises[1].trackingMode = "self_report"
    /\ resp.out[1].tracking_mode = "vbt"
    /\ resp.out[1].sets_required = 5
    /\ resp.out[2].tracking_mode = "self_report"

\* an entry of the content lacks its name, its set count or the `sets` of a
\* set-group
Malformed(content) ==
    \E i \in DOMAIN ExercisesOf(content) :
        IF IsVersioned(content)
        THEN ~ CompleteV2(ExercisesOf(content)[i])
        ELSE ~ CompleteLegacy(ExercisesOf(content)[i])

\* C18: a content with an entry that lacks a required field is rejected by
\* the parser with a validation error; no 0 stands in for a missing set count
\* and no empty string for a missing name.
MalformedRejected ==
    (IsParse /\ Malformed(resp.content)) => resp.error = "ValidationError"

(***************************************************************************)
(* Exercise progress (checked under SpecReport and SpecProgress)           *)
(***************************************************************************)
IsActiveWorkouts == resp.op = "active_workouts" /\ resp.status = 200

\* the exercise lists of the last response, each with its assignment and its
\* player; the store is the one the handler read, as every write and every
\* tick of the clock clears the response
ProgressLists ==
    IF IsProgress
    THEN {[assignment |-> resp.assignment, player_id |-> pid,
           exercises |-> resp.exercises[pid]] : pid \in resp.players}
    ELSE IF IsActiveWorkouts
    THEN {[assignment |-> CHOOSE a \in assignments : a.id = aid,
           player_id |-> resp.player.id,
           exercises |-> resp.exercises[aid]] : aid \in resp.assignment_ids}
    ELSE {}

\* the names of the exercises of a stored template, as written, in order
NamesOf(template_id) ==
    LET content == (CHOOSE t \in templates : t.id = template_id).content
        exercises == ExercisesOf(content)
    IN  [i \in DOMAIN exercises |->
            IF IsVersioned(content) THEN exercises[i].exerciseName
            ELSE exercises[i].name]

\* C13: a progress list has exactly one record per exercise of the template,
\* in the template's order, also when two exercises share a name.
OneRecordPerExercise ==
    \A r \in ProgressLists :
        LET names == NamesOf(r.assignment.template_id)
        IN  /\ Len(r.exercises) = Len(names)
            /\ \A i \in DOMAIN names : r.exercises[i].exercise_name = names[i]

\* the coach reads the progress of the template that lists Lunge twice, and a
\* player who reported Lunge has it in both places
RepeatedExerciseReported ==
    /\ IsProgress
    /\ resp.assignment.template_id = "w2"
    /\ \E pid \in resp.players :
          /\ Len(resp.exercises[pid]) = 3
          /\ resp.exercises[pid][1].exercise_name = "Lunge"
          /\ resp.exercises[pid][3].exercise_name = "Lunge"
          /\ resp.exercises[pid][1].sets_completed = 1
          /\ resp.exercises[pid][3].sets_completed = 1

\* C14: for a sensor-tracked exercise, sets_completed is the number of set
\* summaries of that player with exactly that exercise name stamped from
\* start_at (else the assignment's creation) to due_at (else the time of the
\* request), both ends included; weight_lbs and reps_per_set stay unset.
SensorCountInWindow ==
    \A r \in ProgressLists : \A i \in DOMAIN r.exercises :
        LET e == r.exercises[i]
            a == r.assignment
            first == OrElse(a.start_at, a.created_at)
            last == OrElse(a.due_at, now)
        IN  e.tracking_mode = "vbt" =>
                /\ e.sets_completed =
                       Cardinality({v \in vbt :
                           /\ v.player_id = r.player_id
                           /\ v.exercise = e.exercise_name
                           /\ first <= v.created_at
                           /\ v.created_at <= last})
                /\ e.weight_lbs = None
                /\ e.reps_per_set = None

\* an assignment without start and due date: a set recorded after its
\* creation is counted for the player who recorded it, not for a team-mate
OpenWindowCounted ==
    /\ IsProgress
    /\ resp.assignment.start_at = None
    /\ resp.assignment.due_at = None
    /\ \E v \in vbt :
          /\ v.created_at > resp.assignment.created_at
          /\ v.exercise = "Back Squat"
          /\ v.player_id \in resp.players
          /\ resp.exercises[v.player_id][1].tracking_mode = "vbt"
          /\ resp.exercises[v.player_id][1].sets_completed = 1
          /\ \E pid \in resp.players :
                resp.exercises[pid][1].sets_completed = 0

\* C15: for a self-report exercise the record carries the sets, weight and
\* reps of the row of workout_exercise_logs keyed by (assignment, player,
\* exercise name); without such a row it carries 0 sets and no weight or
\* reps, and the response is still given.
SelfReportFromRow ==
    \A r \in ProgressLists : \A i \in DOMAIN r.exercises :
        LET e == r.exercises[i]
            rows == {l \in logs : /\ l.assignment_id = r.assignment.id
                                  /\ l.player_id = r.player_id
                                  /\ l.exercise_name = e.exercise_name}
        IN  e.tracking_mode = "self_report" =>
                IF rows = {}
                THEN /\ e.sets_completed = 0
                     /\ e.weight_lbs = None
                     /\ e.reps_per_set = None
                ELSE \E l \in rows :
                        /\ e.sets_completed = l.sets_completed
                        /\ e.weight_lbs = l.weight_lbs
                        /\ e.reps_per_set = l.reps_per_set

\* one response with both cases: p1 reported Lunge, p2 did not
ReportedAndMissing ==
    /\ IsProgress
    /\ {"p1", "p2"} \subseteq resp.players
    /\ \E i \in DOMAIN resp.exercises["p1"] :
          /\ resp.exercises["p1"][i].tracking_mode = "self_report"
          /\ resp.exercises["p1"][i].sets_completed = 1
          /\ resp.exercises["p1"][i].weight_lbs = 95
          /\ resp.exercises["p1"][i].reps_per_set = 8
          /\ resp.exercises["p2"][i].sets_completed = 0
          /\ resp.exercises["p2"][i].weight_lbs = None
          /\ resp.exercises["p2"][i].reps_per_set = None

\* C17: a response other than NotFound is given only when every template it
\* needs is stored: the template of the assignment whose progress is read,
\* and the template of every active assignment that targets the player.
MissingTemplateIsNotFound ==
    /\ IsProgress => \E t \in templates : t.id = resp.assignment.template_id
    /\ IsActiveWorkouts =>
          \A a \in assignments :
              (/\ a.team_id = resp.player.team_id
               /\ a.status = "active"
               /\ ActiveFor(a, resp.player))
              => \E t \in templates : t.id = a.template_id

(***************************************************************************)
(* Failing queries (checked under SpecFail)                                *)
(***************************************************************************)
\* C19: when a query sent to the data store raised during a dashboard
\* request, the caller gets an error and no result, whichever query it was,
\* the fetch of the self-report logs included.
FailurePropagated ==
    (resp.op \in {"stats", "due"} /\ resp.failed # {}) => resp.status # 200

LogKey(l) == <<l.assignment_id, l.player_id, l.exercise_name>>

\* C21: the table holds at most one row per (assignment_id, player_id,
\* exercise_name); a step that changes the table is a submission of some
\* player and body after which every entry of the body is the row of its key,
\* stamped with the time of the submission, and the rows of the other keys
\* are the ones that were there before.
OneRowPerKey ==
    [][/\ \A l \in logs', m \in logs' : LogKey(l) = LogKey(m) => l = m
       /\ logs' # logs =>
             \E pid \in PlayerIds, aid \in {l.assignment_id : l \in logs'},
                body \in LogBodiesLog :
                LET keys == {<<aid, pid, e.exercise_name>> : e \in body}
                IN  /\ \A e \in body :
                          \E l \in logs' :
                              /\ LogKey(l) = <<aid, pid, e.exercise_name>>
                              /\ l.sets_completed = e.sets_completed
                              /\ l.weight_lbs = e.weight_lbs
                              /\ l.reps_per_set = e.reps_per_set
                              /\ l.logged_at = now
                    /\ \A l \in logs : LogKey(l) \notin keys => l \in logs'
                    /\ \A l \in logs' : LogKey(l) \notin keys => l \in logs
      ]_vars

\* p1's report of three sets of Lunge has been replaced by a later one of two
\* sets, and the row p2 wrote before that is as it was
ReportReplaced ==
    /\ Cardinality(logs) = 2
    /\ \E l \in logs, m \in logs :
          /\ LogKey(l) = <<1, "p1", "Lunge">>
          /\ l.sets_completed = 2
          /\ l.logged_at = 2
          /\ m.player_id = "p2"
          /\ m.logged_at = 1

(***************************************************************************)
(* The three eligibility decisions (checked under SpecElig)                *)
(***************************************************************************)
\* _eligible_player_ids for a stored assignment, over all player rows
EligibleOf(a) == EligiblePlayerIds(a, players, FetchJunctionMap(Store, {a}))

\* C26: the players get_assignment_progress lists for an assignment are those
\* of _eligible_player_ids, and get_active_workouts lists an active
\* assignment with a stored template for a player exactly when the player is
\* in _eligible_player_ids of the assignment.
EligibilityAgrees ==
    /\ IsProgress => resp.players = EligibleOf(resp.assignment)
    /\ IsActiveWorkouts =>
          \A a \in assignments :
              (a.status = "active" /\ \E t \in templates : t.id = a.template_id)
              => (a.id \in resp.assignment_ids
                    <=> resp.player.id \in EligibleOf(a))

(***************************************************************************)
(* Started and eligible counts (checked under SpecCounts)                  *)
(***************************************************************************)
IsDueWorkouts == resp.op = "due_workouts"

\* C27: in a compliance result and in a list of due workouts the started
\* players of every assignment are among its eligible players; the per-team
\* and overall percentages lie in 0..100 and completedCount is at most
\* totalCount.
StartedWithinEligible ==
    /\ (IsCompliance \/ IsDueWorkouts) =>
          \A aid \in DOMAIN resp.out.started :
              resp.out.started[aid] \subseteq resp.out.eligible[aid]
    /\ IsCompliance =>
          /\ \A tid \in DOMAIN resp.out.per_team :
                resp.out.per_team[tid] \in 0..100
          /\ resp.out.overall \in 0..100
    /\ IsDueWorkouts =>
          \A aid \in DOMAIN resp.items :
              resp.items[aid].completedCount <= resp.items[aid].totalCount

\* a list of due workouts with an assignment on which a player outside its
\* eligible set has reported: the report is not counted
OutsiderNotCounted ==
    /\ IsDueWorkouts
    /\ \E aid \in DOMAIN resp.items :
          /\ \E l \in logs : /\ l.assignment_id = aid
                             /\ l.player_id \notin resp.out.eligible[aid]
          /\ resp.out.eligible[aid] # {}
          /\ resp.items[aid].completedCount = 0

(***************************************************************************)
(* Authentication (checked under SpecAuth)                                 *)
(***************************************************************************)
IsCurrentUser == resp.op = "current_user"
IsOptionalUser == resp.op = "optional_user"
HasToken == resp.request.header = "bearer"

\* the key set is configured and accepts the token
JwksAccepts ==
    /\ settings.supabase_url
    /\ resp.jwks_up
    /\ resp.request.token.signed = "jwks"
    /\ ~ resp.request.token.expired
    /\ resp.request.token.aud = "authenticated"

\* the shared secret is configured and accepts the token
SecretAccepts ==
    /\ settings.supabase_jwt_secret
    /\ resp.request.token.signed = "secret"
    /\ ~ resp.request.token.expired
    /\ resp.request.token.aud = "authenticated"

\* C22: get_current_user returns a user id exactly when the request carries
\* a Bearer token that one of the configured verification methods accepts and
\* whose sub is not empty, and the id is that sub; in every other case it
\* ends with 401 and returns no id.
UserOnlyIfVerified ==
    IsCurrentUser =>
        /\ resp.status \in {200, 401}
        /\ resp.status = 200 <=>
              /\ HasToken
              /\ JwksAccepts \/ SecretAccepts
              /\ resp.request.token.sub \notin {"", NoSub}
        /\ resp.status = 200 => resp.user_id = resp.request.token.sub
        /\ resp.status = 401 => "user_id" \notin DOMAIN resp

\* a token signed with a key of the key set is given its user, and a token
\* without sub signed the same way is not
VerifiedUserReturned ==
    /\ IsCurrentUser
    /\ resp.status = 200
    /\ resp.user_id = "u1"
    /\ resp.request.token.signed = "jwks"

\* C23: the key set is consulted first whenever it is configured; the shared
\* secret is consulted only when it is configured and the key set is not
\* configured or did not accept the token; a token the key set accepts is
\* returned with the key set alone consulted; a token the key set does not
\* accept is invalid when no secret is configured.
JwksBeforeSecret ==
    ((IsCurrentUser \/ IsOptionalUser) /\ HasToken) =>
        LET tried == resp.decoded.tried
        IN  /\ settings.supabase_url => (tried # <<>> /\ tried[1] = "jwks")
            /\ (\E i \in DOMAIN tried : tried[i] = "hs256") =>
                  /\ settings.supabase_jwt_secret
                  /\ ~ JwksAccepts
                  /\ tried[Len(tried)] = "hs256"
            /\ JwksAccepts =>
                  /\ tried = <<"jwks">>
                  /\ resp.decoded.outcome = "payload"
            /\ (~ JwksAccepts /\ ~ settings.supabase_jwt_secret) =>
                  /\ resp.decoded.outcome = "InvalidTokenError"
                  /\ \A i \in DOMAIN tried : tried[i] # "hs256"

\* the key set could not be fetched and the shared secret accepted the token
FallbackAccepted ==
    /\ IsCurrentUser
    /\ HasToken
    /\ ~ resp.jwks_up
    /\ resp.decoded.tried = <<"jwks", "hs256">>
    /\ resp.decoded.outcome = "payload"
    /\ resp.status = 200

\* C24: get_optional_user never raises; it returns None without a Bearer
\* token and when no configured method accepts the token, and the token's sub
\* otherwise.
OptionalUserNeverRaises ==
    IsOptionalUser =>
        /\ ~ resp.raised
        /\ resp.user_id =
              IF HasToken /\ (JwksAccepts \/ SecretAccepts)
              THEN resp.request.token.sub ELSE NoSub

\* an expired token signed with the shared secret: None, no exception
ExpiredIsAnonymous ==
    /\ IsOptionalUser
    /\ HasToken
    /\ resp.request.token.signed = "secret"
    /\ resp.request.token.expired
    /\ resp.decoded.outcome = "ExpiredSignatureError"
    /\ resp.user_id = NoSub

(***************************************************************************)
(* Maxes and testing values (checked under SpecUpsert)                     *)
(***************************************************************************)
\* C25: once every upsert has returned, each key has one current row, no
\* value is in the history twice, the history holds no value that is current,
\* and every value written is the current one of its key or in the history:
\* each overwritten value is archived exactly once.
ArchivedExactlyOnce ==
    upserts = {} =>
        /\ \A r \in current, q \in current :
              (r.table = q.table /\ r.player_id = q.player_id /\ r.key = q.key)
              => r = q
        /\ \A i \in DOMAIN history, k \in DOMAIN history :
              history[i].value = history[k].value => i = k
        /\ \A i \in DOMAIN history : \A r \in current :
              history[i].value # r.value
        /\ \A v \in 1..upsert_seq :
              \/ \E r \in current : r.value = v
              \/ \E i \in DOMAIN history : history[i].value = v

(***************************************************************************)
(* Creation against deletion (checked under SpecRace)                      *)
(***************************************************************************)
\* C28: once every create_assignment and delete_assignment call has
\* returned, each junction row has its assignment; at any time a junction row
\* belongs to an assignment for selected players if its assignment is there,
\* and only an assignment for a position group carries a position group.
NoOrphanJunction ==
    /\ (creating = {} /\ deleting = {}) =>
          \A r \in junction : \E a \in assignments : a.id = r[1]
    /\ \A r \in junction : \A a \in assignments :
          a.id = r[1] => a.target_type = "players"
    /\ \A a \in assignments :
          a.target_position_group # "" => a.target_type = "position_group"

(***************************************************************************)
(* Tags and players (checked under SpecRfid)                               *)
(***************************************************************************)
\* C29: a player's rfid_tag_id is tag T exactly when T's assigned_player_id
\* is that player; an assign call for a tag that does not exist returns 404
\* and leaves every player row as it was.
TagLinkConsistent ==
    /\ \A p \in players : \A t \in rfid_tags :
          rfid_tag_id[p.id] = t.id <=> t.assigned_player_id = p.id
    /\ (resp.op = "assign_rfid_tag" /\ ~ \E t \in rfid_tags : t.id = resp.tag_id)
          => (resp.status = 404 /\ rfid_tag_id = resp.before)

(***************************************************************************)
(* Deleting a recorded set (checked under SpecSets)                        *)
(***************************************************************************)
Rows == <<players, assignments, junction, logs, vbt, raw_sets, rfid_tags,
          rfid_tag_id, current, history>>

CoachOfSet(s, user_id) ==
    \E t \in teams : t.id = s.team_id /\ t.coach_id = user_id

\* C30: delete_set removes a raw set only when the set exists and the caller
\* coaches the set's team; a missing set gives 404, a missing team or another
\* coach gives 403, and in both cases no row of any table changes.
DeleteSetOnlyByCoach ==
    [][ /\ raw_sets' \subseteq raw_sets
           => /\ resp'.op = "delete_set"
              /\ LET found == {s \in raw_sets : s.id = resp'.raw_set_id}
                 IN  /\ found = {} => resp'.status = 404 /\ Rows' = Rows
                     /\ (found # {}
                         /\ ~ \E s \in found : CoachOfSet(s, resp'.user_id))
                           => resp'.status = 403 /\ Rows' = Rows
                     /\ (\E s \in found : CoachOfSet(s, resp'.user_id))
                           => /\ resp'.status = 204
                              /\ raw_sets' = raw_sets \ found
        /\ raw_sets' # raw_sets /\ raw_sets' \subseteq raw_sets
           => \E s \in raw_sets \ raw_sets' : CoachOfSet(s, resp'.user_id)
      ]_vars

\* another coach asked for a set of team t1 or t2 and the set is still there
OtherCoachRefused ==
    /\ resp.op = "delete_set"
    /\ resp.status = 403
    /\ \E s \in raw_sets :
          /\ s.id = resp.raw_set_id
          /\ s.team_id \in TeamIds
          /\ ~ CoachOfSet(s, resp.user_id)
    /\ \E s \in vbt : s.raw_set_id = resp.raw_set_id

====
